---------------------------- MODULE Spec2Model ----------------------------
(***************************************************************************)
(* WhatsApp chat analyzer: the parsing and feature-extraction pipeline of  *)
(* preprocessor.py (analyze_chat = parse_chat, then preprocess).           *)
(*                                                                         *)
(* A Python str is modelled as a sequence of one-character strings, so     *)
(* that the regular expressions, str.split, strptime and strftime are      *)
(* computed character by character.  A character outside ASCII is written  *)
(* by its code point, "U+1F600".                                           *)
(***************************************************************************)
EXTENDS Integers, Sequences, FiniteSets, TLC

(***************************************************************************)
(* Bounds of the model.                                                    *)
(***************************************************************************)
\* the longest export, in lines
MaxLines == 2

(***************************************************************************)
(* Program constants, scaled to the bounded inputs.                        *)
(***************************************************************************)
\* chunk_size = 5000 in parse_chat and in preprocess, scaled so that an
\* export of MaxLines lines spans more than one chunk
chunk_size == 1
\* the 100 of sample_size = min(100, len(df)), scaled so that a table can be
\* longer than the sample
sample_limit == 1

(***************************************************************************)
(* Characters and strings.                                                 *)
(***************************************************************************)
Digits == {"0", "1", "2", "3", "4", "5", "6", "7", "8", "9"}

\* the regular expressions' \d
IsDigit(c) == c \in Digits

\* the regular expressions' \s, and the whitespace of str.split()
IsSpace(c) == c \in {" ", "\t", "\n", "\r"}

DigitVal(c) ==
    CASE c = "0" -> 0 [] c = "1" -> 1 [] c = "2" -> 2 [] c = "3" -> 3
      [] c = "4" -> 4 [] c = "5" -> 5 [] c = "6" -> 6 [] c = "7" -> 7
      [] c = "8" -> 8 [] c = "9" -> 9

DigitChar(v) ==
    CASE v = 0 -> "0" [] v = 1 -> "1" [] v = 2 -> "2" [] v = 3 -> "3"
      [] v = 4 -> "4" [] v = 5 -> "5" [] v = 6 -> "6" [] v = 7 -> "7"
      [] v = 8 -> "8" [] v = 9 -> "9"

Min(S) == CHOOSE x \in S : \A y \in S : x <= y

\* s[p], or the empty string past either end of s
At(s, p) == IF p >= 1 /\ p <= Len(s) THEN s[p] ELSE ""

\* the slice s[a-1:b] of Python, with 1-based inclusive ends
Sub(s, a, b) == IF a > b \/ a < 1 \/ b > Len(s) THEN <<>> ELSE SubSeq(s, a, b)

\* sub in s, for a non-empty sub
Contains(s, sub) ==
    \E p \in 1..(Len(s) - Len(sub) + 1) : SubSeq(s, p, p + Len(sub) - 1) = sub

\* the number of consecutive digits of s from position p
RECURSIVE DigitRun(_, _)
DigitRun(s, p) == IF IsDigit(At(s, p)) THEN 1 + DigitRun(s, p + 1) ELSE 0

\* int(s) for a string of digits
RECURSIVE int(_)
int(s) ==
    IF s = <<>> THEN 0
    ELSE 10 * int(SubSeq(s, 1, Len(s) - 1)) + DigitVal(s[Len(s)])

AllDigits(s) == s # <<>> /\ \A p \in 1..Len(s) : IsDigit(s[p])

\* s.split(sep) for a one-character separator
RECURSIVE split(_, _)
split(s, sep) ==
    LET P == {p \in 1..Len(s) : s[p] = sep}
    IN  IF P = {} THEN <<s>>
        ELSE LET p == Min(P)
             IN  <<Sub(s, 1, p - 1)>> \o split(Sub(s, p + 1, Len(s)), sep)

\* "\n".join(ls) for a non-empty list: the text of an export
RECURSIVE join(_)
join(ls) ==
    IF Len(ls) = 1 THEN ls[1]
    ELSE join(SubSeq(ls, 1, Len(ls) - 1)) \o <<"\n">> \o ls[Len(ls)]

(***************************************************************************)
(* The lines the bounded exports are made of.                              *)
(***************************************************************************)
\* "12/31/23, 11:59 PM - Alice: Hello"
Line12hr ==
    <<"1", "2", "/", "3", "1", "/", "2", "3", ",", " ", "1", "1", ":", "5", "9", " ", "P", "M", " ", "-", " ", "A", "l", "i", "c", "e", ":", " ", "H", "e", "l", "l", "o">>
\* "1/1/23, 10:00 - Alice: Line one"
Line24hr ==
    <<"1", "/", "1", "/", "2", "3", ",", " ", "1", "0", ":", "0", "0", " ", "-", " ", "A", "l", "i", "c", "e", ":", " ", "L", "i", "n", "e", " ", "o", "n", "e">>
\* "Line two"
LineText ==
    <<"L", "i", "n", "e", " ", "t", "w", "o">>
\* "[01.02.2023, 14:05:30] Bob: Bonjour"
LineBracket ==
    <<"[", "0", "1", ".", "0", "2", ".", "2", "0", "2", "3", ",", " ", "1", "4", ":", "0", "5", ":", "3", "0", "]", " ", "B", "o", "b", ":", " ", "B", "o", "n", "j", "o", "u", "r">>
\* "1/1/23, 10:00 - Alice added Bob"
LineNotice ==
    <<"1", "/", "1", "/", "2", "3", ",", " ", "1", "0", ":", "0", "0", " ", "-", " ", "A", "l", "i", "c", "e", " ", "a", "d", "d", "e", "d", " ", "B", "o", "b">>
\* "13/1/23, 9:05 - Bob: a: b"
LineDayFirst ==
    <<"1", "3", "/", "1", "/", "2", "3", ",", " ", "9", ":", "0", "5", " ", "-", " ", "B", "o", "b", ":", " ", "a", ":", " ", "b">>
\* "1/2/23, 25:00 - Bob: x"
LineBadTime ==
    <<"1", "/", "2", "/", "2", "3", ",", " ", "2", "5", ":", "0", "0", " ", "-", " ", "B", "o", "b", ":", " ", "x">>
\* "13/13/23, 12:05 am - Bob: x"
LineBadDate ==
    <<"1", "3", "/", "1", "3", "/", "2", "3", ",", " ", "1", "2", ":", "0", "5", " ", "a", "m", " ", "-", " ", "B", "o", "b", ":", " ", "x">>
\* "1/2/23, 11:59 Pm - Al: hi"
LineMixedCase ==
    <<"1", "/", "2", "/", "2", "3", ",", " ", "1", "1", ":", "5", "9", " ", "P", "m", " ", "-", " ", "A", "l", ":", " ", "h", "i">>
\* "2/1/2023, 12:30 AM - Al: I omitted that"
LineYear4 ==
    <<"2", "/", "1", "/", "2", "0", "2", "3", ",", " ", "1", "2", ":", "3", "0", " ", "A", "M", " ", "-", " ", "A", "l", ":", " ", "I", " ", "o", "m", "i", "t", "t", "e", "d", " ", "t", "h", "a", "t">>
\* "3/4/23, 7:30 pm - Bob: ok"
LineLower ==
    <<"3", "/", "4", "/", "2", "3", ",", " ", "7", ":", "3", "0", " ", "p", "m", " ", "-", " ", "B", "o", "b", ":", " ", "o", "k">>
\* "1/3/23, 8:00 - Al: check <Media Omitted>"
LineMedia ==
    <<"1", "/", "3", "/", "2", "3", ",", " ", "8", ":", "0", "0", " ", "-", " ", "A", "l", ":", " ", "c", "h", "e", "c", "k", " ", "<", "M", "e", "d", "i", "a", " ", "O", "m", "i", "t", "t", "e", "d", ">">>
\* "1/3/23, 8:01 - Al: see https://example.com now"
LineUrl ==
    <<"1", "/", "3", "/", "2", "3", ",", " ", "8", ":", "0", "1", " ", "-", " ", "A", "l", ":", " ", "s", "e", "e", " ", "h", "t", "t", "p", "s", ":", "/", "/", "e", "x", "a", "m", "p", "l", "e", ".", "c", "o", "m", " ", "n", "o", "w">>
\* "1/3/23, 8:02 - Al: <U+1F600>a<U+1F600><U+2764><U+FE0F>"
LineEmoji ==
    <<"1", "/", "3", "/", "2", "3", ",", " ", "8", ":", "0", "2", " ", "-", " ", "A", "l", ":", " ", "U+1F600", "a", "U+1F600", "U+2764", "U+FE0F">>
\* "1/3/23, 8:03 - Al: "
LineBlank ==
    <<"1", "/", "3", "/", "2", "3", ",", " ", "8", ":", "0", "3", " ", "-", " ", "A", "l", ":", " ">>
\* "1/3/23, 8:04 - Al:<tab>x: y", a tab after the sender's colon
LineTab ==
    <<"1", "/", "3", "/", "2", "3", ",", " ", "8", ":", "0", "4", " ", "-", " ", "A", "l", ":", "\t", "x", ":", " ", "y">>
\* ""
LineEmpty == <<>>

SampleLines ==
    {Line12hr, Line24hr, LineText, LineBracket, LineEmpty, LineNotice,
     LineDayFirst, LineBadTime, LineBadDate, LineMixedCase, LineYear4,
     LineLower, LineMedia, LineUrl, LineEmoji, LineBlank, LineTab}

(***************************************************************************)
(* parse_chat: the three header patterns.  Each operator is the            *)
(* re.match of the line against the compiled pattern: the groups of the    *)
(* match, or NoMatch.                                                      *)
(***************************************************************************)
NoMatch ==
    [ok |-> FALSE, date |-> <<>>, time |-> <<>>, user |-> <<>>, message |-> <<>>]

\* (\d{1,2}/\d{1,2}/\d{2,4}) from position p: the position of its last
\* character, or 0.  Every quantified run is followed by a literal that is
\* no digit, so the run has to fit the quantifier as a whole.
SlashDateEnd(s, p) ==
    LET a == DigitRun(s, p)
        b == DigitRun(s, p + a + 1)
        c == DigitRun(s, p + a + b + 2)
    IN  IF /\ a \in 1..2 /\ At(s, p + a) = "/"
           /\ b \in 1..2 /\ At(s, p + a + b + 1) = "/"
           /\ c \in 2..4
        THEN p + a + b + c + 1
        ELSE 0

\* (\d{1,2}\.\d{1,2}\.\d{4}) from position p, likewise
DotDateEnd(s, p) ==
    LET a == DigitRun(s, p)
        b == DigitRun(s, p + a + 1)
        c == DigitRun(s, p + a + b + 2)
    IN  IF /\ a \in 1..2 /\ At(s, p + a) = "."
           /\ b \in 1..2 /\ At(s, p + a + b + 1) = "."
           /\ c = 4
        THEN p + a + b + c + 1
        ELSE 0

\* (.*?)(?::\s)? from position u: the sender's colon is optional, and a
\* line without one is all sender
LazyColon_optional(s, u) ==
    LET J == {j \in u..(Len(s) - 1) : s[j] = ":" /\ IsSpace(s[j + 1])}
    IN  IF u < 1 THEN 0 ELSE IF J = {} THEN Len(s) + 1 ELSE Min(J)

\* (.*):\s from position u, greedy: the last colon that is followed by a
\* whitespace character
LazyColon_greedy(s, u) ==
    LET J == {j \in u..(Len(s) - 1) : s[j] = ":" /\ IsSpace(s[j + 1])}
    IN  IF u < 1 \/ J = {} THEN 0
        ELSE CHOOSE j \in J : \A z \in J : z <= j

\* (.*?):\s from position u: the position of the first colon at or after u
\* that is followed by a whitespace character, or 0
LazyColon(s, u) ==
    LET J == {j \in u..(Len(s) - 1) : s[j] = ":" /\ IsSpace(s[j + 1])}
    IN  IF u < 1 \/ J = {} THEN 0 ELSE Min(J)

\* The two slash-dated patterns, which differ in the time group alone:
\* (\d{1,2}:\d{2}\s[APap][Mm]) with ampm, (\d{1,2}:\d{2}) without.
\*   (\d{1,2}/\d{1,2}/\d{2,4}),\s<time>\s-\s(.*?):\s(.*)
SlashHeader(line, ampm) ==
    LET e  == SlashDateEnd(line, 1)
        ts == e + 3
        h  == DigitRun(line, ts)
        c  == ts + h
        te == IF ampm THEN c + 5 ELSE c + 2
        u  == te + 4
        k  == LazyColon(line, u)
    IN  IF /\ e > 0
           /\ At(line, e + 1) = "," /\ IsSpace(At(line, e + 2))
           /\ h \in 1..2 /\ At(line, c) = ":"
           /\ IsDigit(At(line, c + 1)) /\ IsDigit(At(line, c + 2))
           /\ ampm => /\ IsSpace(At(line, c + 3))
                      /\ At(line, c + 4) \in {"A", "P", "a", "p"}
                      /\ At(line, c + 5) \in {"M", "m"}
           /\ IsSpace(At(line, te + 1)) /\ At(line, te + 2) = "-"
           /\ IsSpace(At(line, te + 3))
           /\ k > 0
        THEN [ok |-> TRUE, date |-> Sub(line, 1, e), time |-> Sub(line, ts, te),
              user |-> Sub(line, u, k - 1),
              message |-> Sub(line, k + 2, Len(line))]
        ELSE NoMatch

\* regex_12hr.match(line)
regex_12hr(line) == SlashHeader(line, TRUE)

\* regex_24hr with an optional am/pm after the minutes:
\*   (\d{1,2}:\d{2}(?:\s[APap][Mm])?)
regex_24hr_optional_ampm(line) ==
    IF SlashHeader(line, FALSE).ok THEN SlashHeader(line, FALSE)
    ELSE SlashHeader(line, TRUE)

\* regex_24hr.match(line)
regex_24hr(line) == SlashHeader(line, FALSE)

\* regex_bracket.match(line):
\*   \[(\d{1,2}\.\d{1,2}\.\d{4}),\s(\d{1,2}:\d{2}:\d{2})\]\s(.*?):\s(.*)
regex_bracket(line) ==
    LET e  == DotDateEnd(line, 2)
        ts  == e + 3
        h  == DigitRun(line, ts)
        c  == ts + h
        te == c + 5
        u  == te + 3
        k  == LazyColon(line, u)
    IN  IF /\ At(line, 1) = "[" /\ e > 0
           /\ At(line, e + 1) = "," /\ IsSpace(At(line, e + 2))
           /\ h \in 1..2 /\ At(line, c) = ":"
           /\ IsDigit(At(line, c + 1)) /\ IsDigit(At(line, c + 2))
           /\ At(line, c + 3) = ":"
           /\ IsDigit(At(line, c + 4)) /\ IsDigit(At(line, c + 5))
           /\ At(line, te + 1) = "]" /\ IsSpace(At(line, te + 2))
           /\ k > 0
        THEN [ok |-> TRUE, date |-> Sub(line, 2, e), time |-> Sub(line, ts, te),
              user |-> Sub(line, u, k - 1),
              message |-> Sub(line, k + 2, Len(line))]
        ELSE NoMatch

(***************************************************************************)
(* The state of one run of analyze_chat(data).                             *)
(***************************************************************************)
VARIABLES
    pc,             \* the statement analyze_chat is at
    data,           \* the raw text of the export
    lines,          \* parse_chat: data.split('\n')
    i,              \* parse_chat: the chunk loop's index into lines
    chunk_lines,    \* parse_chat: lines[i:i+chunk_size]
    pos,              \* parse_chat: how many lines of the chunk are done
    dates,          \* parse_chat: the four lists the records are built in
    times,
    users,
    messages,
    df,             \* the table: one row [date, time, user, message] a record
    columns,        \* the table's column names
    date_format,    \* preprocess: the format inferred from the sample
    date_col,       \* preprocess: df['date'] once it holds timestamps
    i_time,              \* preprocess: the time loop's index into df
    datetime,       \* preprocess: df['datetime']
    derived,        \* preprocess: the derived columns, one record a row
    given,          \* ChatAnalyzer: the table the caller passes, its rows
    given_columns,  \* ChatAnalyzer: the caller's table, its column names
    self_df,        \* ChatAnalyzer: self.df, its rows
    self_columns,   \* ChatAnalyzer: self.df, its column names
    year_month_str, \* ChatAnalyzer: self.df['year_month_str'], or <<>>
    same_object,    \* ChatAnalyzer: self.df is the caller's table itself
    result          \* ChatAnalyzer: what the last call returned or raised

vars ==
    <<pc, data, lines, i, chunk_lines, pos, dates, times, users, messages, df,
      columns, date_format, date_col, i_time, datetime, derived, given,
      given_columns, self_df, self_columns, year_month_str, same_object,
      result>>

an_vars ==
    <<given, given_columns, self_df, self_columns, year_month_str,
      same_object, result>>

pipeline_vars ==
    <<data, lines, i, chunk_lines, pos, dates, times, users, messages, df,
      columns, date_format, date_col, i_time, datetime, derived>>

\* no call yet
NoResult == [op |-> "none", raised |-> FALSE, value |-> <<>>]

\* no ChatAnalyzer
NoAnalyzer ==
    /\ given = <<>>
    /\ given_columns = {}
    /\ self_df = <<>>
    /\ self_columns = {}
    /\ year_month_str = <<>>
    /\ same_object = FALSE
    /\ result = NoResult

pre_vars == <<date_format, date_col, i_time, datetime, derived>>

parse_vars == <<lines, i, chunk_lines, pos, dates, times, users, messages>>

Exports ==
    {join(ls) : ls \in UNION {[1..k -> SampleLines] : k \in 1..MaxLines}}

Init ==
    /\ data \in Exports
    /\ pc = "split"
    /\ lines = <<>>
    /\ i = 0
    /\ chunk_lines = <<>>
    /\ pos = 0
    /\ dates = <<>>
    /\ times = <<>>
    /\ users = <<>>
    /\ messages = <<>>
    /\ df = <<>>
    /\ columns = {}
    /\ date_format = "unset"
    /\ date_col = <<>>
    /\ i_time = 0
    /\ datetime = <<>>
    /\ derived = <<>>
    /\ NoAnalyzer

(***************************************************************************)
(* parse_chat                                                              *)
(***************************************************************************)
\* lines = data.split('\n')
SplitLines ==
    /\ pc = "split"
    /\ lines' = split(data, "\n")
    /\ i' = 0
    /\ pc' = "chunk"
    /\ UNCHANGED <<an_vars, data, chunk_lines, pos, dates, times, users, messages, df,
                   columns, pre_vars>>

\* lines[i:i+chunk_size-1]: a slice one line short
ChunkOf_short(ls, start) ==
    Sub(ls, start + 1, IF start + chunk_size - 1 < Len(ls)
                       THEN start + chunk_size - 1 ELSE Len(ls))

\* lines[i:i+chunk_size], for the 0-based i of the loop
ChunkOf(ls, start) ==
    Sub(ls, start + 1, IF start + chunk_size < Len(ls)
                       THEN start + chunk_size ELSE Len(ls))

\* for i in range(0, len(lines), chunk_size): chunk_lines = lines[i:i+chunk_size]
NextChunk ==
    /\ pc = "chunk"
    /\ i < Len(lines)
    /\ chunk_lines' = ChunkOf(lines, i)
    /\ pos' = 0
    /\ pc' = "line"
    /\ UNCHANGED <<an_vars, data, lines, i, dates, times, users, messages, df, columns,
                   pre_vars>>

\* the header branches: the four appends of a match's groups
AppendRecord(m) ==
    /\ dates' = Append(dates, m.date)
    /\ times' = Append(times, m.time)
    /\ users' = Append(users, m.user)
    /\ messages' = Append(messages, m.message)

\* messages[-1] += ',' + line: a separator that is no whitespace
AppendContinuation_comma(msgs, line) ==
    [msgs EXCEPT ![Len(msgs)] = @ \o <<",">> \o line]

\* messages[-1] += line: the newline forgotten
AppendContinuation_no_newline(msgs, line) ==
    [msgs EXCEPT ![Len(msgs)] = msgs[Len(msgs)] \o line]

\* if line: messages[-1] += '\n' + line, an empty line skipped
AppendContinuation_skip_empty(msgs, line) ==
    IF line = <<>> THEN msgs
    ELSE [msgs EXCEPT ![Len(msgs)] = msgs[Len(msgs)] \o <<"\n">> \o line]

\* messages[-1] += '\n' + line
AppendContinuation(msgs, line) ==
    [msgs EXCEPT ![Len(msgs)] = msgs[Len(msgs)] \o <<"\n">> \o line]

\* the line the inner loop is at
CurLine == chunk_lines[pos + 1]

AtLine == pc = "line" /\ pos < Len(chunk_lines)

LineDone ==
    /\ pos' = pos + 1
    /\ UNCHANGED <<an_vars, pc, data, lines, i, chunk_lines, df, columns,
                   pre_vars>>

\* if match_12hr:
Header12hr ==
    /\ AtLine
    /\ regex_12hr(CurLine).ok
    /\ AppendRecord(regex_12hr(CurLine))
    /\ LineDone

\* elif match_24hr:
Header24hr ==
    /\ AtLine
    /\ ~regex_12hr(CurLine).ok
    /\ regex_24hr(CurLine).ok
    /\ AppendRecord(regex_24hr(CurLine))
    /\ LineDone

\* elif match_bracket:
HeaderBracket ==
    /\ AtLine
    /\ ~regex_12hr(CurLine).ok
    /\ ~regex_24hr(CurLine).ok
    /\ regex_bracket(CurLine).ok
    /\ AppendRecord(regex_bracket(CurLine))
    /\ LineDone

NoHeader(line) ==
    /\ ~regex_12hr(line).ok
    /\ ~regex_24hr(line).ok
    /\ ~regex_bracket(line).ok

\* the else branch with the records kept chunk by chunk: the first line of
\* a chunk finds no record of its chunk and is passed over
Continuation_chunk_local ==
    /\ AtLine
    /\ NoHeader(CurLine)
    /\ Len(messages) > 0
    /\ messages' = (IF pos = 0 THEN messages
                    ELSE AppendContinuation(messages, CurLine))
    /\ UNCHANGED <<dates, times, users>>
    /\ LineDone

\* else: if len(messages) > 0: messages[-1] += '\n' + line
Continuation ==
    /\ AtLine
    /\ NoHeader(CurLine)
    /\ Len(messages) > 0
    /\ messages' = AppendContinuation(messages, CurLine)
    /\ UNCHANGED <<dates, times, users>>
    /\ LineDone

\* the else branch without its len(messages) > 0 test: messages[-1] of an
\* empty list raises IndexError
DropLine_IndexError ==
    /\ pc = "line" /\ pos < Len(chunk_lines)
    /\ ~regex_12hr(chunk_lines[pos + 1]).ok
    /\ ~regex_24hr(chunk_lines[pos + 1]).ok
    /\ ~regex_bracket(chunk_lines[pos + 1]).ok
    /\ ~(Len(messages) > 0)
    /\ pc' = "raised"
    /\ UNCHANGED <<an_vars, data, parse_vars, df, columns, pre_vars>>

\* else: with no record yet the line is passed over
DropLine ==
    /\ AtLine
    /\ NoHeader(CurLine)
    /\ ~(Len(messages) > 0)
    /\ UNCHANGED <<dates, times, users, messages>>
    /\ LineDone

\* the inner loop is through the chunk: the next i of the range
EndChunk ==
    /\ pc = "line"
    /\ pos = Len(chunk_lines)
    /\ i' = i + chunk_size
    /\ pc' = "chunk"
    /\ UNCHANGED <<an_vars, data, lines, chunk_lines, pos, dates, times, users, messages,
                   df, columns,
                   pre_vars>>

\* the rows pd.DataFrame({...}) builds of the four lists
Frame(ds, ts, us, ms) ==
    [k \in 1..Len(ds) |->
        [date |-> ds[k], time |-> ts[k], user |-> us[k], message |-> ms[k]]]

\* the range is exhausted: df = pd.DataFrame({...}); return df
BuildFrame ==
    /\ pc = "chunk"
    /\ ~(i < Len(lines))
    /\ df' = Frame(dates, times, users, messages)
    /\ columns' = {"date", "time", "user", "message"}
    /\ pc' = "preprocess"
    /\ UNCHANGED <<an_vars, data, lines, i, chunk_lines, pos, dates, times, users,
                   messages, pre_vars>>

(***************************************************************************)
(* preprocess: dates.  A parsed date is [y, m, d]; NaT is pandas' missing  *)
(* timestamp.                                                              *)
(***************************************************************************)
NaT == [y |-> 0, m |-> 0, d |-> 0]

IsLeap(y) == (y % 4 = 0 /\ y % 100 # 0) \/ y % 400 = 0

DaysInMonth(y, m) ==
    IF m = 2 THEN (IF IsLeap(y) THEN 29 ELSE 28)
    ELSE IF m \in {4, 6, 9, 11} THEN 30 ELSE 31

\* the date a calendar accepts, or NaT
MakeDate(y, m, d) ==
    IF m \in 1..12 /\ d >= 1 /\ d <= DaysInMonth(y, m)
    THEN [y |-> y, m |-> m, d |-> d]
    ELSE NaT

\* the year of a two-digit %y
Year2(v) == IF v <= 68 THEN 2000 + v ELSE 1900 + v

\* sample_dates = df['date'].iloc[:sample_size], sample_size = min(100, len(df))
sample_dates(tbl) ==
    [k \in 1..(IF sample_limit < Len(tbl) THEN sample_limit ELSE Len(tbl)) |->
        tbl[k].date]

\* date_format with int(parts[0]) >= 12 for the day-first test
InferDateFormat_ge(tbl) ==
    LET sample  == sample_dates(tbl)
        dotted  == {k \in 1..Len(sample) : Contains(sample[k], <<".">>)}
        slashed == {k \in 1..Len(sample) : Contains(sample[k], <<"/">>)}
    IN  IF dotted # {} THEN "%d.%m.%Y"
        ELSE IF slashed # {} THEN
            LET sample_date == sample[Min(slashed)]
                parts == split(sample_date, "/")
            IN  IF Len(parts) = 3 THEN
                    IF ~AllDigits(parts[1]) THEN "ValueError"
                    ELSE IF int(parts[1]) >= 12
                    THEN (IF Len(parts[3]) = 4 THEN "%d/%m/%Y" ELSE "%d/%m/%y")
                    ELSE (IF Len(parts[3]) = 4 THEN "%m/%d/%Y" ELSE "%m/%d/%y")
                ELSE "None"
        ELSE "None"

\* The date_format the try block settles on: one of the five strptime
\* formats, "None", or "ValueError" when int(parts[0]) raises.
InferDateFormat(tbl) ==
    LET sample  == sample_dates(tbl)
        dotted  == {k \in 1..Len(sample) : Contains(sample[k], <<".">>)}
        slashed == {k \in 1..Len(sample) : Contains(sample[k], <<"/">>)}
    IN  IF dotted # {} THEN "%d.%m.%Y"
        ELSE IF slashed # {} THEN
            LET sample_date == sample[Min(slashed)]
                parts == split(sample_date, "/")
            IN  IF Len(parts) = 3 THEN
                    IF ~AllDigits(parts[1]) THEN "ValueError"
                    ELSE IF int(parts[1]) > 12
                    THEN (IF Len(parts[3]) = 4 THEN "%d/%m/%Y" ELSE "%d/%m/%y")
                    ELSE (IF Len(parts[3]) = 4 THEN "%m/%d/%Y" ELSE "%m/%d/%y")
                ELSE "None"
        ELSE "None"

\* pd.to_datetime(s, format=fmt) for one string: the date, or NaT where
\* the string does not match the format or names no calendar date
to_datetime_format(s, fmt) ==
    LET sep      == IF fmt = "%d.%m.%Y" THEN "." ELSE "/"
        dayfirst == fmt \in {"%d.%m.%Y", "%d/%m/%Y", "%d/%m/%y"}
        ylen     == IF fmt \in {"%d/%m/%y", "%m/%d/%y"} THEN 2 ELSE 4
        parts    == split(s, sep)
    IN  IF /\ Len(parts) = 3
           /\ \A p \in 1..3 : AllDigits(parts[p])
           /\ Len(parts[1]) <= 2 /\ Len(parts[2]) <= 2
           /\ Len(parts[3]) = ylen
        THEN LET a == int(parts[1])
                 b == int(parts[2])
                 y == IF ylen = 2 THEN Year2(int(parts[3])) ELSE int(parts[3])
             IN  IF dayfirst THEN MakeDate(y, b, a) ELSE MakeDate(y, a, b)
        ELSE NaT

\* pd.to_datetime(s, dayfirst=True) for one string: three numbers separated
\* by slashes or by periods, read day first unless only month first names
\* a month; NaT where neither does
to_datetime_dayfirst(s) ==
    LET sep   == IF Contains(s, <<"/">>) THEN "/" ELSE "."
        parts == split(s, sep)
    IN  IF /\ Len(parts) = 3
           /\ \A p \in 1..3 : AllDigits(parts[p])
           /\ Len(parts[1]) <= 2 /\ Len(parts[2]) <= 2
           /\ Len(parts[3]) \in {2, 4}
        THEN LET a == int(parts[1])
                 b == int(parts[2])
                 y == IF Len(parts[3]) = 2 THEN Year2(int(parts[3]))
                      ELSE int(parts[3])
             IN  IF a > 12 \/ b <= 12 THEN MakeDate(y, b, a)
                 ELSE MakeDate(y, a, b)
        ELSE NaT

(***************************************************************************)
(* preprocess: times                                                       *)
(***************************************************************************)
NoTime == [ok |-> FALSE, hour |-> 0, minute |-> 0]

\* the number of consecutive whitespace characters of s from position p
RECURSIVE SpaceRun(_, _)
SpaceRun(s, p) == IF IsSpace(At(s, p)) THEN 1 + SpaceRun(s, p + 1) ELSE 0

Lower(c) ==
    CASE c = "A" -> "a" [] c = "P" -> "p" [] c = "M" -> "m" [] OTHER -> c

\* strptime('%I:%M %p') with the hour of 12 AM and 12 PM not wrapped
strptime_12hr_no_wrap(s) ==
    LET h  == DigitRun(s, 1)
        mr == DigitRun(s, h + 2)
        w  == SpaceRun(s, h + mr + 2)
        p  == h + mr + w + 2
        hv == int(Sub(s, 1, h))
        mv == int(Sub(s, h + 2, h + mr + 1))
        pm == Lower(At(s, p)) = "p"
    IN  IF /\ h \in 1..2 /\ At(s, h + 1) = ":" /\ mr \in 1..2 /\ w >= 1
           /\ Lower(At(s, p)) \in {"a", "p"} /\ Lower(At(s, p + 1)) = "m"
           /\ Len(s) = p + 1
           /\ hv \in 1..12 /\ mv <= 59
        THEN [ok |-> TRUE, hour |-> (IF pm /\ hv < 12 THEN hv + 12 ELSE hv),
              minute |-> mv]
        ELSE NoTime

\* datetime.strptime(s, '%I:%M %p'): hour 1 to 12, minute 0 to 59, whitespace,
\* am or pm in either case, and nothing after it
strptime_12hr(s) ==
    LET h  == DigitRun(s, 1)
        mr == DigitRun(s, h + 2)
        w  == SpaceRun(s, h + mr + 2)
        p  == h + mr + w + 2
        hv == int(Sub(s, 1, h))
        mv == int(Sub(s, h + 2, h + mr + 1))
        pm == Lower(At(s, p)) = "p"
    IN  IF /\ h \in 1..2 /\ At(s, h + 1) = ":" /\ mr \in 1..2 /\ w >= 1
           /\ Lower(At(s, p)) \in {"a", "p"} /\ Lower(At(s, p + 1)) = "m"
           /\ Len(s) = p + 1
           /\ hv \in 1..12 /\ mv <= 59
        THEN [ok |-> TRUE, hour |-> (hv % 12) + (IF pm THEN 12 ELSE 0),
              minute |-> mv]
        ELSE NoTime

\* datetime.strptime(s, '%H:%M:%S'): hour 0 to 23, minute and second 0 to 59
strptime_hms(s) ==
    LET h  == DigitRun(s, 1)
        mr == DigitRun(s, h + 2)
        sr == DigitRun(s, h + mr + 3)
        hv == int(Sub(s, 1, h))
        mv == int(Sub(s, h + 2, h + mr + 1))
        sv == int(Sub(s, h + mr + 3, h + mr + sr + 2))
    IN  IF /\ h \in 1..2 /\ At(s, h + 1) = ":" /\ mr \in 1..2
           /\ At(s, h + mr + 2) = ":" /\ sr \in 1..2
           /\ Len(s) = h + mr + sr + 2
           /\ hv <= 23 /\ mv <= 59 /\ sv <= 59
        THEN [ok |-> TRUE, hour |-> hv, minute |-> mv]
        ELSE NoTime

\* two decimal digits, zero padded
Pad2(v) == <<DigitChar(v \div 10), DigitChar(v % 10)>>

\* .strftime('%H:%M')
strftime_HM(tm) == Pad2(tm.hour) \o <<":">> \o Pad2(tm.minute)

\* time_str.count(':')
CountColons(s) == Cardinality({p \in 1..Len(s) : s[p] = ":"})

\* 'AM' in time_str or 'PM' in time_str or 'am' in time_str or 'pm' in time_str
HasAmPm(s) ==
    \/ Contains(s, <<"A", "M">>) \/ Contains(s, <<"P", "M">>)
    \/ Contains(s, <<"a", "m">>) \/ Contains(s, <<"p", "m">>)

\* convert_time that cuts a time with no marker at its last colon, whatever
\* the number of its colons
convert_time_cut_last_field(time_str) ==
    IF HasAmPm(time_str) THEN
        IF strptime_12hr(time_str).ok
        THEN strftime_HM(strptime_12hr(time_str))
        ELSE time_str
    ELSE IF CountColons(time_str) >= 1 THEN
        Sub(time_str, 1,
            (CHOOSE p \in 1..Len(time_str) :
                /\ time_str[p] = ":"
                /\ \A q \in (p + 1)..Len(time_str) : time_str[q] # ":") - 1)
    ELSE time_str

convert_time(time_str) ==
    IF HasAmPm(time_str) THEN
        IF strptime_12hr(time_str).ok
        THEN strftime_HM(strptime_12hr(time_str))
        ELSE time_str
    ELSE IF CountColons(time_str) = 2 THEN
        IF strptime_hms(time_str).ok
        THEN strftime_HM(strptime_hms(time_str))
        ELSE time_str
    ELSE time_str

(***************************************************************************)
(* preprocess                                                              *)
(***************************************************************************)
\* df is None, which no table is
empty_is_none(tbl) == FALSE

\* df.empty
empty(tbl) == Len(tbl) = 0

\* if df.empty: return df
ReturnEmpty ==
    /\ pc = "preprocess"
    /\ empty(df)
    /\ pc' = "done"
    /\ UNCHANGED <<an_vars, data, parse_vars, df, columns, pre_vars>>

\* The column df['date'] after the try/except.  The try block raises when
\* int() does, when a date does not parse under the inferred format, or,
\* with no format, when a date does not parse day first; the except block
\* then parses every date again, day first, coercing failures to NaT.
DateColumn(tbl) ==
    LET fmt      == InferDateFormat(tbl)
        strict   == [k \in 1..Len(tbl) |-> to_datetime_format(tbl[k].date, fmt)]
        flexible == [k \in 1..Len(tbl) |-> to_datetime_dayfirst(tbl[k].date)]
        raises   == \/ fmt = "ValueError"
                    \/ fmt # "None" /\ \E k \in 1..Len(tbl) : strict[k] = NaT
                    \/ fmt = "None" /\ \E k \in 1..Len(tbl) : flexible[k] = NaT
    IN  IF raises \/ fmt = "None" THEN flexible ELSE strict

\* the try/except that converts df['date']
ConvertDates ==
    /\ pc = "preprocess"
    /\ ~empty(df)
    /\ date_format' = InferDateFormat(df)
    /\ date_col' = DateColumn(df)
    /\ i_time' = 0
    /\ pc' = "times"
    /\ UNCHANGED <<an_vars, data, parse_vars, df, columns, datetime, derived>>

\* df = df.loc[i:chunk_end] with the times converted: the rows outside the
\* slice are lost
ConvertSlice_only_slice(tbl, start) ==
    LET chunk_end == IF start + chunk_size < Len(tbl)
                     THEN start + chunk_size ELSE Len(tbl)
    IN  [k \in 1..(chunk_end - start) |->
            [tbl[start + k] EXCEPT !.time = convert_time(@)]]

\* df.loc[i:chunk_end, 'time'] = df.loc[i:chunk_end, 'time'].apply(convert_time)
\* for the 0-based i: a label slice, so the rows i to chunk_end inclusive
ConvertSlice(tbl, start) ==
    LET chunk_end == IF start + chunk_size < Len(tbl)
                     THEN start + chunk_size ELSE Len(tbl)
    IN  [k \in 1..Len(tbl) |->
            IF k - 1 >= start /\ k - 1 <= chunk_end
            THEN [tbl[k] EXCEPT !.time = convert_time(@)]
            ELSE tbl[k]]

\* for i in range(0, len(df), chunk_size): one pass of the loop
ConvertTimes ==
    /\ pc = "times"
    /\ i_time < Len(df)
    /\ df' = ConvertSlice(df, i_time)
    /\ i_time' = i_time + chunk_size
    /\ UNCHANGED <<an_vars, pc, data, parse_vars, columns, date_format, date_col,
                   datetime, derived>>

\* four decimal digits, zero padded
Pad4(v) == Pad2(v \div 100) \o Pad2(v % 100)

\* df['date'].astype(str) for one timestamp
DateStr(dt) ==
    IF dt = NaT THEN <<"N", "a", "T">>
    ELSE Pad4(dt.y) \o <<"-">> \o Pad2(dt.m) \o <<"-">> \o Pad2(dt.d)

NoStamp == [ok |-> FALSE, y |-> 0, m |-> 0, d |-> 0, hour |-> 0, minute |-> 0]

\* the time of day pd.to_datetime reads at the end of a string: H:MM or
\* H:MM:SS on the 24-hour clock, or H:MM and am or pm in either case
ParseClock(s) ==
    LET h  == DigitRun(s, 1)
        mr == DigitRun(s, h + 2)
        hv == int(Sub(s, 1, h))
        mv == int(Sub(s, h + 2, h + mr + 1))
        e  == h + mr + 1
        sr == DigitRun(s, e + 2)
        sv == int(Sub(s, e + 2, e + sr + 1))
        pm == Lower(At(s, e + 2)) = "p"
    IN  IF ~(h \in 1..2 /\ At(s, h + 1) = ":" /\ mr = 2 /\ mv <= 59) THEN NoTime
        ELSE IF Len(s) = e
        THEN (IF hv <= 23 THEN [ok |-> TRUE, hour |-> hv, minute |-> mv]
              ELSE NoTime)
        ELSE IF At(s, e + 1) = ":"
        THEN (IF sr = 2 /\ Len(s) = e + 3 /\ sv <= 59 /\ hv <= 23
              THEN [ok |-> TRUE, hour |-> hv, minute |-> mv] ELSE NoTime)
        ELSE IF /\ IsSpace(At(s, e + 1)) /\ Lower(At(s, e + 2)) \in {"a", "p"}
                /\ Lower(At(s, e + 3)) = "m" /\ Len(s) = e + 3 /\ hv <= 12
        THEN [ok |-> TRUE, hour |-> (hv % 12) + (IF pm THEN 12 ELSE 0),
              minute |-> mv]
        ELSE NoTime

\* pd.to_datetime of one string 'YYYY-MM-DD <time>': the timestamp, or
\* not ok where the string is no date and time ('NaT 10:00', '... 25:00')
to_datetime(s) ==
    LET clock == ParseClock(Sub(s, 12, Len(s)))
        y == int(Sub(s, 1, 4))
        m == int(Sub(s, 6, 7))
        d == int(Sub(s, 9, 10))
    IN  IF /\ DigitRun(s, 1) = 4 /\ At(s, 5) = "-" /\ DigitRun(s, 6) = 2
           /\ At(s, 8) = "-" /\ DigitRun(s, 9) = 2 /\ At(s, 11) = " "
           /\ MakeDate(y, m, d) # NaT
           /\ clock.ok
        THEN [ok |-> TRUE, y |-> y, m |-> m, d |-> d, hour |-> clock.hour,
              minute |-> clock.minute]
        ELSE NoStamp

\* df['date'].astype(str) + ' ' + df['time'], row k
StampStr(k) == DateStr(date_col[k]) \o <<" ">> \o df[k].time

\* df['datetime'] = pd.to_datetime(...): every string parses
MakeDatetime ==
    /\ pc = "times"
    /\ ~(i_time < Len(df))
    /\ \A k \in 1..Len(df) : to_datetime(StampStr(k)).ok
    /\ datetime' = [k \in 1..Len(df) |-> to_datetime(StampStr(k))]
    /\ pc' = "features"
    /\ UNCHANGED <<an_vars, data, parse_vars, df, columns, date_format, date_col, i_time,
                   derived>>

\* df['datetime'] = pd.to_datetime(...): a string does not parse, and the
\* call raises out of preprocess and analyze_chat
MakeDatetimeRaises ==
    /\ pc = "times"
    /\ ~(i_time < Len(df))
    /\ \E k \in 1..Len(df) : ~to_datetime(StampStr(k)).ok
    /\ pc' = "raised"
    /\ UNCHANGED <<an_vars, data, parse_vars, df, columns, pre_vars>>

\* len(x.split(' ')): a single space separates, and empty pieces count
word_count_single_space(x) == Len(split(x, " "))

\* len(x.split()): the maximal runs of characters that are not whitespace
word_count(x) ==
    Cardinality({p \in 1..Len(x) :
                    ~IsSpace(x[p]) /\ (p = 1 \/ IsSpace(x[p - 1]))})

\* the number of consecutive characters of s from position p that are not
\* whitespace
RECURSIVE WordRun(_, _)
WordRun(s, p) ==
    IF p <= Len(s) /\ ~IsSpace(s[p]) THEN 1 + WordRun(s, p + 1) ELSE 0

\* x.split(): the maximal runs of characters that are not whitespace
RECURSIVE tokens(_)
tokens(x) ==
    IF x = <<>> THEN <<>>
    ELSE IF IsSpace(x[1]) THEN tokens(Tail(x))
    ELSE LET n == WordRun(x, 1)
         IN  <<SubSeq(x, 1, n)>> \o tokens(SubSeq(x, n + 1, Len(x)))

UpperLetters ==
    <<"A", "B", "C", "D", "E", "F", "G", "H", "I", "J", "K", "L", "M", "N", "O", "P", "Q", "R", "S", "T", "U", "V", "W", "X", "Y", "Z">>

LowerLetters ==
    <<"a", "b", "c", "d", "e", "f", "g", "h", "i", "j", "k", "l", "m", "n", "o", "p", "q", "r", "s", "t", "u", "v", "w", "x", "y", "z">>

\* str.lower() of one character
lower_char(c) ==
    IF \E k \in 1..26 : UpperLetters[k] = c
    THEN LowerLetters[CHOOSE k \in 1..26 : UpperLetters[k] = c]
    ELSE c

\* str.lower()
lower(x) == [p \in 1..Len(x) |-> lower_char(x[p])]

\* media_terms = ['<media omitted>'], the export's marker alone
media_terms_marker_only ==
    {<<"<", "m", "e", "d", "i", "a", " ", "o", "m", "i", "t", "t", "e", "d", ">">>}

\* media_terms = ['omitted', '<media omitted>']
media_terms ==
    {<<"o", "m", "i", "t", "t", "e", "d">>,
     <<"<", "m", "e", "d", "i", "a", " ", "o", "m", "i", "t", "t", "e", "d", ">">>}

\* has_media without the .str.lower()
has_media_case_sensitive(x) ==
    IF \E term \in media_terms : Contains(x, term) THEN 1 ELSE 0

\* 1 if any(term in x for term in media_terms) else 0, of the lowercased
\* message
has_media(x) ==
    IF \E term \in media_terms : Contains(lower(x), term) THEN 1 ELSE 0

\* the top-level domains the extractor knows, of which the model has two
tlds == {<<"c", "o", "m">>, <<"o", "r", "g">>}

IsAlnum(c) ==
    \/ IsDigit(c)
    \/ \E k \in 1..26 : c = UpperLetters[k] \/ c = LowerLetters[k]

\* the extractor takes a run of characters between whitespace for a URL
\* when it has a host, a dot and a top-level domain that ends the run or is
\* followed by a path, a port, a query or a fragment
IsUrl(tok) ==
    \E p \in 2..Len(tok) : \E tld \in tlds :
        /\ tok[p] = "."
        /\ IsAlnum(tok[p - 1])
        /\ Sub(tok, p + 1, p + Len(tld)) = tld
        /\ At(tok, p + Len(tld) + 1) \in {"", "/", ":", "?", "#"}

\* extractor.find_urls(x): the URLs of x in order, repeats kept
find_urls(x) == SelectSeq(tokens(x), IsUrl)

\* has_url as "more than one URL"
has_url_several(x) == Len(find_urls(x)) > 1

\* bool(extractor.find_urls(x))
has_url(x) == find_urls(x) # <<>>

\* len(extractor.find_urls(x))
url_count(x) == Len(find_urls(x))

\* the keys of emoji.EMOJI_DATA that are one character long, of which the
\* model has four: grinning face, red heart, thumbs up, copyright sign.
\* The variation selector U+FE0F is no key.
EMOJI_DATA == {"U+1F600", "U+2764", "U+1F44D", "U+00A9"}

RECURSIVE Distinct(_)
Distinct(s) ==
    IF s = <<>> THEN <<>>
    ELSE LET rest == Distinct(SubSeq(s, 1, Len(s) - 1))
         IN  IF \E p \in 1..Len(rest) : rest[p] = s[Len(s)] THEN rest
             ELSE Append(rest, s[Len(s)])

\* extract_emojis with every emoji once
extract_emojis_once(text) ==
    Distinct(SelectSeq(text, LAMBDA c : c \in EMOJI_DATA))

\* [c for c in text if c in emoji.EMOJI_DATA]
extract_emojis(text) == SelectSeq(text, LAMBDA c : c \in EMOJI_DATA)

\* the day of the week of a date, 0 for Monday
weekday(y, m, d) ==
    LET offs == <<0, 3, 2, 5, 0, 3, 5, 1, 4, 6, 2, 4>>
        yy   == IF m < 3 THEN y - 1 ELSE y
    IN  (yy + yy \div 4 - yy \div 100 + yy \div 400 + offs[m] + d + 6) % 7

\* dt.day_name()
day_name(y, m, d) ==
    <<"Monday", "Tuesday", "Wednesday", "Thursday", "Friday", "Saturday",
      "Sunday">>[weekday(y, m, d) + 1]

\* dt.month_name()
month_name(m) ==
    <<"January", "February", "March", "April", "May", "June", "July",
      "August", "September", "October", "November", "December">>[m]

\* the derived columns of one row
Derive(row, stamp) ==
    [hour |-> stamp.hour, minute |-> stamp.minute, day |-> stamp.d,
     day_of_week |-> day_name(stamp.y, stamp.m, stamp.d),
     month |-> stamp.m, month_name |-> month_name(stamp.m),
     year |-> stamp.y,
     message_length |-> Len(row.message),
     word_count |-> word_count(row.message),
     has_media |-> has_media(row.message),
     has_url |-> has_url(row.message),
     url_count |-> url_count(row.message),
     emojis |-> extract_emojis(row.message),
     emoji_count |-> Len(extract_emojis(row.message))]

DerivedColumns ==
    {"datetime", "hour", "minute", "day", "day_of_week", "month",
     "month_name", "year", "message_length", "word_count", "has_media",
     "has_url", "url_count", "emojis", "emoji_count"}

\* the emojis of the rows so far, as one list shared by the rows would give
RECURSIVE EmojisUpTo(_, _)
EmojisUpTo(tbl, k) ==
    IF k = 0 THEN <<>>
    ELSE EmojisUpTo(tbl, k - 1) \o extract_emojis(tbl[k].message)

\* the feature columns with the emojis collected in one list for all rows
ExtractFeatures_shared_list ==
    /\ pc = "features"
    /\ derived' = [k \in 1..Len(df) |->
                     [Derive(df[k], datetime[k]) EXCEPT
                         !.emojis = EmojisUpTo(df, k),
                         !.emoji_count = Len(EmojisUpTo(df, k))]]
    /\ columns' = columns \cup DerivedColumns
    /\ pc' = "done"
    /\ UNCHANGED <<an_vars, data, parse_vars, df, date_format, date_col, i_time, datetime>>

\* the feature columns, and return df
ExtractFeatures ==
    /\ pc = "features"
    /\ derived' = [k \in 1..Len(df) |-> Derive(df[k], datetime[k])]
    /\ columns' = columns \cup DerivedColumns
    /\ pc' = "done"
    /\ UNCHANGED <<an_vars, data, parse_vars, df, date_format, date_col, i_time, datetime>>

(***************************************************************************)
(* preprocess called again, on the table it returned                       *)
(***************************************************************************)
\* the try/except on a date column that holds timestamps: .str of such a
\* column raises AttributeError, and the except block's
\* pd.to_datetime(df['date'], dayfirst=True, errors='coerce') gives the
\* timestamps themselves
dates_again(col) == col

\* the time loop as a whole: for i in range(0, len(df), chunk_size)
RECURSIVE TimeLoop(_, _)
TimeLoop(tbl, start) ==
    IF start < Len(tbl)
    THEN TimeLoop(ConvertSlice(tbl, start), start + chunk_size)
    ELSE tbl

\* the row-k string of df['date'].astype(str) + ' ' + df['time']
StampOf(col, tbl, k) == DateStr(col[k]) \o <<" ">> \o tbl[k].time

\* preprocess(df) without the except block: the AttributeError of .str
\* leaves preprocess
Reprocess_no_except ==
    /\ pc = "done"
    /\ ~empty(df)
    /\ pc' = "raised"
    /\ UNCHANGED <<an_vars, data, parse_vars, df, columns, pre_vars>>

\* preprocess(df) for the table a first call returned: the dates, the time
\* loop, the datetime column, which raises where a string does not parse,
\* and the features.  date_format is a local of the call that the raise in
\* the try block leaves unassigned; the variable keeps the first call's.
Reprocess ==
    /\ pc = "done"
    /\ ~empty(df)
    /\ \E dc \in {dates_again(date_col)}, tbl \in {TimeLoop(df, 0)} :
        \E st \in {[k \in 1..Len(tbl) |-> to_datetime(StampOf(dc, tbl, k))]} :
            IF \A k \in 1..Len(tbl) : st[k].ok
            THEN /\ date_col' = dc
                 /\ df' = tbl
                 /\ datetime' = st
                 /\ derived' = [k \in 1..Len(tbl) |-> Derive(tbl[k], st[k])]
                 /\ columns' = columns \cup DerivedColumns
                 /\ pc' = "again"
            ELSE /\ pc' = "raised"
                 /\ UNCHANGED <<df, columns, date_col, datetime, derived>>
    /\ UNCHANGED <<an_vars, data, parse_vars, date_format, i_time>>

\* preprocess(tbl) of a non-empty parser output as one function: the
\* datetime and the derived columns of every row, or not ok where line 169
\* raises
Enriched(tbl) ==
    CHOOSE e \in
        {IF \A k \in 1..Len(tbl) : st[k].ok
         THEN [ok |-> TRUE, date |-> dc, time |-> tm, datetime |-> st,
               rows |-> [k \in 1..Len(tbl) |-> Derive(tbl[k], st[k])]]
         ELSE [ok |-> FALSE, date |-> dc, time |-> tm, datetime |-> <<>>,
               rows |-> <<>>] :
           st \in {[k \in 1..Len(tbl) |->
                      to_datetime(DateStr(DateColumn(tbl)[k]) \o <<" ">>
                                  \o convert_time(tbl[k].time))]},
           dc \in {DateColumn(tbl)},
           tm \in {[k \in 1..Len(tbl) |-> convert_time(tbl[k].time)]}} : TRUE

Next ==
    \/ SplitLines
    \/ NextChunk
    \/ Header12hr
    \/ Header24hr
    \/ HeaderBracket
    \/ Continuation
    \/ DropLine
    \/ EndChunk
    \/ BuildFrame
    \/ ReturnEmpty
    \/ ConvertDates
    \/ ConvertTimes
    \/ MakeDatetime
    \/ MakeDatetimeRaises
    \/ ExtractFeatures
    \/ Reprocess

Spec == Init /\ [][Next]_vars

(***************************************************************************)
(* ChatAnalyzer (analytics.py).  The caller passes an enriched table; the  *)
(* analyzer keeps a copy and answers queries on it.                        *)
(***************************************************************************)
\* a number that is missing, as pandas gives for the fields of a missing
\* datetime
NaN == -1

\* a string that is missing
NoString == <<"n", "a", "n">>

\* the columns of a table preprocess has enriched
EnrichedColumns == {"date", "time", "user", "message"} \cup DerivedColumns

\* the rows of the table preprocess returns for a non-empty parser output
EnrichedRows(tbl) ==
    CHOOSE rows \in
        {[k \in 1..Len(tbl) |->
            [date |-> e.date[k], time |-> e.time[k], user |-> tbl[k].user,
             message |-> tbl[k].message, datetime |-> e.datetime[k]]
            @@ e.rows[k]] : e \in {Enriched(tbl)}} : TRUE

\* a row whose date did not parse: the date and the datetime are missing,
\* and so are the fields taken from the datetime
MissingDate(row) ==
    [row EXCEPT !.date = NaT, !.datetime = NoStamp, !.hour = NaN,
                !.minute = NaN, !.day = NaN, !.day_of_week = "nan",
                !.month = NaN, !.month_name = "nan", !.year = NaN]

\* the record parse_chat makes of a header line
RecordOf(line) ==
    CHOOSE r \in
        {[date |-> m.date, time |-> m.time, user |-> m.user,
          message |-> m.message] :
           m \in {IF regex_12hr(line).ok THEN regex_12hr(line)
                  ELSE IF regex_24hr(line).ok THEN regex_24hr(line)
                  ELSE regex_bracket(line)}} : TRUE

\* the records the analyzer's tables are made of
AnalyzerRecords ==
    {RecordOf(l) : l \in {Line12hr, LineYear4, LineUrl, LineEmoji}}

\* the tables of up to n records of a set
RECURSIVE TablesUpTo(_, _)
TablesUpTo(records, n) ==
    IF n = 0 THEN {<<>>}
    ELSE LET shorter == TablesUpTo(records, n - 1)
         IN  shorter \cup {Append(x, r) : x \in shorter, r \in records}

\* the tables a caller passes to ChatAnalyzer(df): the empty table, and the
\* enriched tables of up to MaxLines records, any of their dates missing
EnrichedTables ==
    {<<>>} \cup
    UNION {{[k \in 1..Len(rows) |->
               IF k \in gone THEN MissingDate(rows[k]) ELSE rows[k]] :
              gone \in SUBSET (1..Len(rows))} :
             rows \in {EnrichedRows(tbl) :
                         tbl \in {x \in TablesUpTo(AnalyzerRecords, MaxLines) :
                                    x # <<>> /\ Enriched(x).ok}}}

\* before ChatAnalyzer(df): the caller holds an enriched table
InitAnalyzer ==
    /\ pc = "new"
    /\ data = <<>>
    /\ lines = <<>>
    /\ i = 0
    /\ chunk_lines = <<>>
    /\ pos = 0
    /\ dates = <<>>
    /\ times = <<>>
    /\ users = <<>>
    /\ messages = <<>>
    /\ df = <<>>
    /\ columns = {}
    /\ date_format = "unset"
    /\ date_col = <<>>
    /\ i_time = 0
    /\ datetime = <<>>
    /\ derived = <<>>
    /\ given \in EnrichedTables
    /\ given_columns = (IF given = <<>> THEN {"date", "time", "user", "message"}
                        ELSE EnrichedColumns)
    /\ self_df = <<>>
    /\ self_columns = {}
    /\ year_month_str = <<>>
    /\ same_object = FALSE
    /\ result = NoResult

\* self.df = df, without the copy
Construct_no_copy ==
    /\ pc = "new"
    /\ self_df' = given
    /\ self_columns' = given_columns
    /\ same_object' = TRUE
    /\ pc' = "analyzer"
    /\ UNCHANGED <<pipeline_vars, given, given_columns, year_month_str, result>>

\* __init__: self.df = df.copy(); the category columns keep their values
Construct ==
    /\ pc = "new"
    /\ self_df' = given
    /\ self_columns' = given_columns
    /\ same_object' = FALSE
    /\ pc' = "analyzer"
    /\ UNCHANGED <<pipeline_vars, given, given_columns, year_month_str, result>>

\* what a call returned
Returns(name, v) == [op |-> name, raised |-> FALSE, value |-> v]

\* a call that raised
Raises(name, error) == [op |-> name, raised |-> TRUE, value |-> error]

\* a call that leaves self.df as it is
Query(r) ==
    /\ pc = "analyzer"
    /\ result' = r
    /\ UNCHANGED <<pc, pipeline_vars, given, given_columns, self_df,
                   self_columns, year_month_str, same_object>>

\* the sum of the numbers of a sequence
RECURSIVE Sum(_)
Sum(s) == IF s = <<>> THEN 0 ELSE s[1] + Sum(Tail(s))

\* a column of a table
Column(tbl, name) == [k \in 1..Len(tbl) |-> tbl[k][name]]

\* date.toordinal(): the days from 1 January of the year 1, which is day 1
RECURSIVE DayOfYear(_, _, _)
DayOfYear(y, m, d) ==
    IF m = 1 THEN d ELSE DaysInMonth(y, m - 1) + DayOfYear(y, m - 1, d)

toordinal(dt) ==
    LET yy == dt.y - 1
    IN  365 * yy + yy \div 4 - yy \div 100 + yy \div 400
            + DayOfYear(dt.y, dt.m, dt.d)

\* Series.max() and .min() of a date column: missing dates are skipped, and
\* the result is missing where every date is
MaxDate(tbl) ==
    LET have == {tbl[k].date : k \in {j \in 1..Len(tbl) : tbl[j].date # NaT}}
    IN  IF have = {} THEN NaT
        ELSE CHOOSE x \in have : \A z \in have : toordinal(z) <= toordinal(x)

MinDate(tbl) ==
    LET have == {tbl[k].date : k \in {j \in 1..Len(tbl) : tbl[j].date # NaT}}
    IN  IF have = {} THEN NaT
        ELSE CHOOSE x \in have : \A z \in have : toordinal(x) <= toordinal(z)

\* get_basic_stats with the days between the first and the last date, the
\* + 1 left out
basic_stats_days_between(tbl) ==
    IF Len(tbl) = 0
    THEN Returns("get_basic_stats",
                 [total_messages |-> 0, total_words |-> 0, media_shared |-> 0,
                  links_shared |-> 0, total_emojis |-> 0])
    ELSE IF MinDate(tbl) = NaT
    THEN Raises("get_basic_stats", "ValueError")
    ELSE LET days == toordinal(MaxDate(tbl)) - toordinal(MinDate(tbl))
         IN  Returns("get_basic_stats",
                 [total_messages |-> Len(tbl),
                  total_words |-> Sum(Column(tbl, "word_count")),
                  media_shared |-> Sum(Column(tbl, "has_media")),
                  links_shared |-> Sum(Column(tbl, "url_count")),
                  total_emojis |-> Sum(Column(tbl, "emoji_count")),
                  chat_duration_days |-> days,
                  first_message_date |-> DateStr(MinDate(tbl)),
                  last_message_date |-> DateStr(MaxDate(tbl)),
                  avg_messages_per_day |-> [num |-> Len(tbl), den |-> days]])

\* the dictionary get_basic_stats returns, or ValueError where strftime is
\* called on a missing date.  avg_messages_per_day is kept as the fraction
\* num / den.
basic_stats(tbl) ==
    IF Len(tbl) = 0
    THEN Returns("get_basic_stats",
                 [total_messages |-> 0, total_words |-> 0, media_shared |-> 0,
                  links_shared |-> 0, total_emojis |-> 0])
    ELSE IF MinDate(tbl) = NaT
    THEN Raises("get_basic_stats", "ValueError")
    ELSE LET days == toordinal(MaxDate(tbl)) - toordinal(MinDate(tbl)) + 1
         IN  Returns("get_basic_stats",
                 [total_messages |-> Len(tbl),
                  total_words |-> Sum(Column(tbl, "word_count")),
                  media_shared |-> Sum(Column(tbl, "has_media")),
                  links_shared |-> Sum(Column(tbl, "url_count")),
                  total_emojis |-> Sum(Column(tbl, "emoji_count")),
                  chat_duration_days |-> days,
                  first_message_date |-> DateStr(MinDate(tbl)),
                  last_message_date |-> DateStr(MaxDate(tbl)),
                  avg_messages_per_day |-> [num |-> Len(tbl), den |-> days]])

get_basic_stats == Query(basic_stats(self_df))

\* the default of get_active_users(top_n)
top_n == 10

\* the defaults of get_word_analysis and get_emoji_analysis(top_n)
top_n_words == 20

\* the default of get_word_analysis(min_length)
min_length == 3

\* the rows of a user
RowsOf(tbl, u) == SelectSeq(tbl, LAMBDA r : r.user = u)

\* the groupby('user').agg(...) of get_active_users, one record a user; the
\* mean message length is kept as the fraction num / den
user_stats(tbl) ==
    {LET rows == RowsOf(tbl, u)
     IN  [User |-> u,
          Messages |-> Len(rows),
          Words |-> Sum(Column(rows, "word_count")),
          AvgMessageLength |-> [num |-> Sum(Column(rows, "message_length")),
                                den |-> Len(rows)],
          MediaShared |-> Sum(Column(rows, "has_media")),
          LinksShared |-> Sum(Column(rows, "url_count")),
          EmojisUsed |-> Sum(Column(rows, "emoji_count"))] :
        u \in {tbl[k].user : k \in 1..Len(tbl)}}

\* sort_values(by='Messages', ascending=False).head(n): the users that
\* fewer than n users exceed
active_users(tbl, n) ==
    Returns("get_active_users",
            IF Len(tbl) = 0 THEN {}
            ELSE {u \in user_stats(tbl) :
                    Cardinality({z \in user_stats(tbl) :
                                    z.Messages > u.Messages}) < n})

get_active_users == Query(active_users(self_df, top_n))

\* groupby(keys).size(): the number of rows of each key, the rows whose key
\* is missing left out
CountBy(keys, missing) ==
    [x \in {keys[k] : k \in 1..Len(keys)} \ {missing} |->
        Cardinality({k \in 1..Len(keys) : keys[k] = x})]

\* groupby(keys)[column].sum()
SumBy(keys, vals, missing) ==
    [x \in {keys[k] : k \in 1..Len(keys)} \ {missing} |->
        Sum(SelectSeq([k \in 1..Len(keys) |-> IF keys[k] = x THEN vals[k] ELSE 0],
                      LAMBDA v : TRUE))]

\* dt.strftime('%Y-%m') of one datetime
year_month(stamp) ==
    IF ~stamp.ok THEN NoString ELSE Pad4(stamp.y) \o <<"-">> \o Pad2(stamp.m)

\* self.df['datetime'].dt.strftime('%Y-%m')
YearMonthColumn(tbl) == [k \in 1..Len(tbl) |-> year_month(tbl[k].datetime)]

\* self.df['year_month_str'] = ...: the column is added to self.df, which
\* is the caller's table too where no copy was made
AddYearMonth ==
    /\ self_columns' = self_columns \cup {"year_month_str"}
    /\ year_month_str' = YearMonthColumn(self_df)
    /\ given_columns' = (IF same_object
                         THEN given_columns \cup {"year_month_str"}
                         ELSE given_columns)

\* the four tables of get_activity_by_time
activity_by_time(tbl) ==
    Returns("get_activity_by_time",
            [hourly_activity |-> CountBy(Column(tbl, "hour"), NaN),
             daily_activity |-> CountBy(Column(tbl, "date"), NaT),
             monthly_activity |-> CountBy(YearMonthColumn(tbl), NoString),
             day_of_week_activity |-> CountBy(Column(tbl, "day_of_week"), "nan")])

no_activity ==
    Returns("get_activity_by_time",
            [hourly_activity |-> <<>>, daily_activity |-> <<>>,
             monthly_activity |-> <<>>, day_of_week_activity |-> <<>>])

get_activity_by_time ==
    \/ /\ Len(self_df) = 0
       /\ Query(no_activity)
    \/ /\ pc = "analyzer"
       /\ Len(self_df) > 0
       /\ AddYearMonth
       /\ result' = activity_by_time(self_df)
       /\ UNCHANGED <<pc, pipeline_vars, given, self_df, same_object>>

\* words of the NLTK list and of stop_words.py, of which the model has five
stop_words ==
    {<<"m", "e", "d", "i", "a">>,
     <<"o", "m", "i", "t", "t", "e", "d">>,
     <<"t", "h", "a", "t">>,
     <<"n", "o", "w">>,
     <<"t", "h", "e">>}

\* re.sub(r'http\S+', '', text)
RECURSIVE RemoveUrls(_)
RemoveUrls(x) ==
    IF x = <<>> THEN <<>>
    ELSE IF Sub(x, 1, 4) = <<"h", "t", "t", "p">> /\ WordRun(x, 5) > 0
    THEN RemoveUrls(SubSeq(x, 5 + WordRun(x, 5), Len(x)))
    ELSE <<x[1]>> \o RemoveUrls(Tail(x))

\* re.sub(r'[^\w\s]', '', text), then re.sub(r'\d+', '', text): letters,
\* underscores and whitespace stay
Letters(x) ==
    SelectSeq(x, LAMBDA c : (IsAlnum(c) /\ ~IsDigit(c)) \/ c = "_" \/ IsSpace(c))

\* ' '.join(chunk.fillna(''))
RECURSIVE JoinMessages(_)
JoinMessages(tbl) ==
    IF tbl = <<>> THEN <<>>
    ELSE IF Len(tbl) = 1 THEN tbl[1].message
    ELSE tbl[1].message \o <<" ">> \o JoinMessages(Tail(tbl))

\* the words get_word_analysis counts
Words(tbl, shortest) ==
    SelectSeq(tokens(lower(Letters(RemoveUrls(JoinMessages(tbl))))),
              LAMBDA w : w \notin stop_words /\ Len(w) >= shortest)

\* Counter(...).most_common(n): the entries that fewer than n entries exceed
most_common(counts, n) ==
    LET top == {x \in DOMAIN counts :
                    Cardinality({z \in DOMAIN counts : counts[z] > counts[x]}) < n}
    IN  [x \in top |-> counts[x]]

\* the word frequencies, and the word cloud where there is a word
word_analysis(tbl, n, shortest) ==
    IF Len(tbl) = 0
    THEN Returns("get_word_analysis", [word_freq |-> <<>>, wordcloud_b64 |-> "None"])
    ELSE LET words == Words(tbl, shortest)
         IN  Returns("get_word_analysis",
                     [word_freq |-> most_common(CountBy(words, <<>>), n),
                      wordcloud_b64 |-> IF words = <<>> THEN "None" ELSE "png"])

get_word_analysis == Query(word_analysis(self_df, top_n_words, min_length))

\* all_emojis: the emojis lists of the rows, one after the other
RECURSIVE AllEmojis(_)
AllEmojis(tbl) ==
    IF tbl = <<>> THEN <<>> ELSE tbl[1].emojis \o AllEmojis(Tail(tbl))

emoji_analysis(tbl, n) ==
    IF Len(tbl) = 0 \/ Sum(Column(tbl, "emoji_count")) = 0 \/ AllEmojis(tbl) = <<>>
    THEN Returns("get_emoji_analysis", <<>>)
    ELSE Returns("get_emoji_analysis", most_common(CountBy(AllEmojis(tbl), ""), n))

get_emoji_analysis == Query(emoji_analysis(self_df, top_n_words))

\* the result of get_media_analysis, the months taken from the column ym
media_analysis(tbl, ym) ==
    Returns("get_media_analysis",
            [total_media |-> Sum(Column(tbl, "has_media")),
             media_by_user |-> SumBy(Column(tbl, "user"), Column(tbl, "has_media"), NoString),
             media_over_time |-> SumBy(ym, Column(tbl, "has_media"), NoString)])

no_media ==
    Returns("get_media_analysis",
            [total_media |-> 0, media_by_user |-> <<>>, media_over_time |-> <<>>])

get_media_analysis ==
    \/ /\ Len(self_df) = 0
       /\ Query(no_media)
    \/ /\ Len(self_df) > 0
       /\ "year_month_str" \in self_columns
       /\ Query(media_analysis(self_df, year_month_str))
    \/ /\ pc = "analyzer"
       /\ Len(self_df) > 0
       /\ "year_month_str" \notin self_columns
       /\ AddYearMonth
       /\ result' = media_analysis(self_df, YearMonthColumn(self_df))
       /\ UNCHANGED <<pc, pipeline_vars, given, self_df, same_object>>

\* the dates a caller asks for
QueryDates ==
    {[y |-> 2023, m |-> 1, d |-> 3], [y |-> 2023, m |-> 12, d |-> 31],
     [y |-> 2020, m |-> 2, d |-> 29]}

\* self.df[self.df['date'].dt.date == date].copy()
conversation_by_date(tbl, date) ==
    Returns("get_conversation_by_date",
            SelectSeq(tbl, LAMBDA r : r.date = date))

get_conversation_by_date ==
    \E date \in QueryDates : Query(conversation_by_date(self_df, date))

\* cleanup_temp_data that leaves the temporary column in place
cleanup_temp_data_keeps ==
    Query(Returns("cleanup_temp_data", "None"))

\* for col in temp_columns: self.df = self.df.drop(columns=[col]), which
\* makes self.df a new table
cleanup_temp_data ==
    \/ /\ pc = "analyzer"
       /\ "year_month_str" \in self_columns
       /\ self_columns' = self_columns \ {"year_month_str"}
       /\ year_month_str' = <<>>
       /\ same_object' = FALSE
       /\ result' = Returns("cleanup_temp_data", "None")
       /\ UNCHANGED <<pc, pipeline_vars, given, given_columns, self_df>>
    \/ /\ "year_month_str" \notin self_columns
       /\ Query(Returns("cleanup_temp_data", "None"))

NextAnalyzer ==
    \/ Construct
    \/ get_basic_stats
    \/ get_active_users
    \/ get_activity_by_time
    \/ get_word_analysis
    \/ get_emoji_analysis
    \/ get_media_analysis
    \/ get_conversation_by_date
    \/ cleanup_temp_data

SpecAnalyzer == InitAnalyzer /\ [][NextAnalyzer]_vars

(***************************************************************************)
(* Properties of parse_chat                                                *)
(***************************************************************************)
\* a header line: one that a header pattern matches
IsHeader(line) ==
    regex_12hr(line).ok \/ regex_24hr(line).ok \/ regex_bracket(line).ok

\* the groups parse_chat takes of a header line, by the priority of the
\* if/elif chain
Groups(line) ==
    LET m12 == regex_12hr(line)
        m24 == regex_24hr(line)
    IN  IF m12.ok THEN m12
        ELSE IF m24.ok THEN m24
        ELSE regex_bracket(line)

\* how many lines of the export the loops have been through
Seen ==
    CASE pc = "split" -> 0
      [] pc = "line" -> i + pos
      [] pc = "chunk" -> (IF i < Len(lines) THEN i ELSE Len(lines))
      [] OTHER -> Len(lines)

\* the positions of the header lines among the lines seen, in order
HeaderSeq ==
    SelectSeq([p \in 1..Seen |-> p], LAMBDA p : IsHeader(lines[p]))

\* the last line seen of the run of non-header lines that follows the k-th
\* of the header lines at positions hs
RunEnd(hs, k) == IF k < Len(hs) THEN hs[k + 1] - 1 ELSE Seen

\* the message tail of header line p, then a newline and the raw line for
\* each of the lines p+1 to q
RECURSIVE Joined(_, _)
Joined(p, q) ==
    IF q <= p THEN Groups(lines[p]).message
    ELSE Joined(p, q - 1) \o <<"\n">> \o lines[q]

ParseDone == pc \notin {"split", "chunk", "line"}

C2_OneRecordPerHeader ==
    LET hs == HeaderSeq
        count == Len(hs)
    IN  /\ Len(dates) = count /\ Len(times) = count
        /\ Len(users) = count /\ Len(messages) = count
        /\ \A k \in 1..count :
            LET g == Groups(lines[hs[k]])
            IN  /\ dates[k] = g.date
                /\ times[k] = g.time
                /\ users[k] = g.user
                /\ Len(messages[k]) >= Len(g.message)
                /\ SubSeq(messages[k], 1, Len(g.message)) = g.message
        /\ pc = "preprocess" =>
            /\ Len(df) = count
            /\ \A k \in 1..count :
                /\ df[k].date = dates[k] /\ df[k].time = times[k]
                /\ df[k].user = users[k] /\ df[k].message = messages[k]

\* two header lines of different patterns give two records in their order
C2_Witness ==
    /\ pc = "preprocess"
    /\ lines = <<LineBracket, Line12hr>>
    /\ Len(df) = 2
    /\ df[1].user = <<"B", "o", "b">>
    /\ df[1].time = <<"1", "4", ":", "0", "5", ":", "3", "0">>
    /\ df[2].user = <<"A", "l", "i", "c", "e">>
    /\ df[2].message = <<"H", "e", "l", "l", "o">>

\* the number of characters of the messages that the lines p to upto
\* account for: a header line its message tail, another line a newline
\* and itself
RECURSIVE Accounted(_, _)
Accounted(p, upto) ==
    IF p > upto THEN 0
    ELSE LET g == Groups(lines[p])
         IN  (IF g.ok THEN Len(g.message) ELSE 1 + Len(lines[p]))
             + Accounted(p + 1, upto)

RECURSIVE TotalLen(_)
TotalLen(msgs) ==
    IF msgs = <<>> THEN 0
    ELSE Len(msgs[Len(msgs)]) + TotalLen(SubSeq(msgs, 1, Len(msgs) - 1))

\* C3: a non-header line before the first header line is discarded.  While
\* no header line has been seen the four lists stay empty and nothing is
\* raised; afterwards the messages hold the characters of the lines from
\* the first header line on and no others.
C3_LeadingLinesDropped ==
    LET hs == HeaderSeq
    IN  /\ hs = <<>> =>
            /\ dates = <<>> /\ times = <<>> /\ users = <<>> /\ messages = <<>>
            /\ pc # "raised"
        /\ hs # <<>> => TotalLen(messages) = Accounted(hs[1], Seen)

\* text before the first header, and a record after it
C3_Witness ==
    /\ pc = "preprocess"
    /\ lines = <<LineText, Line24hr>>
    /\ Len(df) = 1
    /\ df[1].message = <<"L", "i", "n", "e", " ", "o", "n", "e">>

\* no line of the export matches a header pattern
NoHeaders ==
    LET ls == split(data, "\n")
    IN  \A p \in 1..Len(ls) : ~IsHeader(ls[p])

\* C4: for an export in which no line matches a header pattern, parse_chat
\* returns an empty table and preprocess returns it as it is: nothing is
\* raised, no conversion step is entered and no derived column is added.
C4_NoHeadersGivesEmpty ==
    NoHeaders =>
        /\ pc \notin {"times", "features", "raised"}
        /\ dates = <<>> /\ messages = <<>>
        /\ df = <<>>
        /\ date_col = <<>> /\ datetime = <<>> /\ derived = <<>>
        /\ pc = "done" => columns = {"date", "time", "user", "message"}

\* an export of text and a system notice ends as an empty table
C4_Witness ==
    /\ pc = "done"
    /\ lines = <<LineText, LineNotice>>
    /\ df = <<>>
    /\ columns = {"date", "time", "user", "message"}

\* C5: the three header patterns are mutually exclusive: no line matches
\* more than one of them, so that whichever pattern matches a line gives
\* the groups parse_chat takes, whatever the order of the if/elif chain.
C5_PatternsExclusive ==
    \A p \in 1..Len(lines) :
        LET l == lines[p]
            m12 == regex_12hr(l)
            m24 == regex_24hr(l)
            mbr == regex_bracket(l)
            g == Groups(l)
        IN  /\ ~(m12.ok /\ m24.ok)
            /\ ~(m12.ok /\ mbr.ok)
            /\ ~(m24.ok /\ mbr.ok)
            /\ m12.ok => m12 = g
            /\ m24.ok => m24 = g
            /\ mbr.ok => mbr = g

\* a 12-hour and a 24-hour header line, each matched by its own pattern alone
C5_Witness ==
    /\ pc = "preprocess"
    /\ lines = <<Line12hr, Line24hr>>
    /\ regex_12hr(lines[1]).ok /\ ~regex_24hr(lines[1]).ok
    /\ regex_24hr(lines[2]).ok /\ ~regex_12hr(lines[2]).ok
    /\ df[1].time = <<"1", "1", ":", "5", "9", " ", "P", "M">>
    /\ df[2].time = <<"1", "0", ":", "0", "0">>

(***************************************************************************)
(* Properties of preprocess                                                *)
(***************************************************************************)
\* the 24-hour value of hour h of the 12-hour clock: h PM is h + 12 and
\* 12 PM is 12, h AM is h and 12 AM is 0
Hour24(h, pm) ==
    IF pm THEN (IF h = 12 THEN 12 ELSE h + 12) ELSE (IF h = 12 THEN 0 ELSE h)

\* C6: for every line in the 12-hour header format the record's date, time,
\* user and message are the substrings of the line around ", ", " - " and
\* ": " (the message is followed by the continuation lines, if any), and
\* once the table is enriched the record's hour is the 24-hour value of
\* its time.
C6_TwelveHourHeader ==
    pc = "done" =>
        LET hs == HeaderSeq
        IN  \A k \in 1..Len(hs) :
                LET l    == lines[hs[k]]
                    tm   == times[k]
                    head == dates[k] \o <<",", " ">> \o tm \o <<" ", "-", " ">>
                            \o users[k] \o <<":", " ">>
                    tail == Len(l) - Len(head)
                    h    == int(Sub(tm, 1, DigitRun(tm, 1)))
                    pm   == At(tm, Len(tm) - 1) \in {"P", "p"}
                IN  regex_12hr(l).ok =>
                        /\ Len(df) = Len(hs) /\ Len(derived) = Len(hs)
                        /\ tail >= 0 /\ Sub(l, 1, Len(head)) = head
                        /\ Sub(messages[k], 1, tail) = Sub(l, Len(head) + 1, Len(l))
                        /\ RunEnd(hs, k) = hs[k] => Len(messages[k]) = tail
                        /\ df[k].user = users[k] /\ df[k].message = messages[k]
                        /\ At(tm, Len(tm) - 1) \in {"A", "P", "a", "p"}
                        /\ At(tm, Len(tm)) \in {"M", "m"}
                        /\ derived[k].hour = Hour24(h, pm)

\* "12/31/23, 11:59 PM - Alice: Hello" gives user Alice, message Hello and
\* hour 23
C6_Witness ==
    /\ pc = "done"
    /\ lines = <<Line12hr>>
    /\ dates[1] = <<"1", "2", "/", "3", "1", "/", "2", "3">>
    /\ times[1] = <<"1", "1", ":", "5", "9", " ", "P", "M">>
    /\ df[1].user = <<"A", "l", "i", "c", "e">>
    /\ df[1].message = <<"H", "e", "l", "l", "o">>
    /\ derived[1].hour = 23

\* the time loop is through every row
TimesConverted ==
    \/ pc \in {"features", "done", "raised"}
    \/ pc = "times" /\ ~(i_time < Len(df))

\* am or pm in either case of either letter, as [APap][Mm] of the 12-hour
\* header pattern takes it
HasMarker(s) ==
    \E p \in 1..(Len(s) - 1) :
        Lower(s[p]) \in {"a", "p"} /\ Lower(s[p + 1]) = "m"

\* C7: a time string that contains an AM/PM marker and parses as
\* 'H:MM AM/PM' becomes its 24-hour 'HH:MM'; one with exactly two colons
\* that parses as 'HH:MM:SS' becomes 'HH:MM'; every other string, and
\* every string whose parse fails, is left as it is.  (Violated: the code
\* tests for 'AM', 'PM', 'am' and 'pm' only, and leaves '11:59 Pm' as it is.)
C7_TimeNormalized ==
    TimesConverted =>
        \A k \in 1..Len(df) :
            LET raw == times[k]
                out == df[k].time
            IN  IF HasMarker(raw) THEN
                    IF strptime_12hr(raw).ok
                    THEN out = strftime_HM(strptime_12hr(raw))
                    ELSE out = raw
                ELSE IF CountColons(raw) = 2 /\ strptime_hms(raw).ok
                THEN out = strftime_HM(strptime_hms(raw))
                ELSE out = raw

\* the number a string starts with
LeadingNumber(s) == int(Sub(s, 1, DigitRun(s, 1)))

\* the number of digits a string ends with
RECURSIVE TrailingDigits(_)
TrailingDigits(s) ==
    IF s # <<>> /\ IsDigit(s[Len(s)])
    THEN 1 + TrailingDigits(SubSeq(s, 1, Len(s) - 1))
    ELSE 0

\* the three numbers of a date string, read day first or month first
Reading(s, dayfirst) ==
    LET a  == DigitRun(s, 1)
        b  == DigitRun(s, a + 2)
        yd == TrailingDigits(s)
        yv == int(Sub(s, Len(s) - yd + 1, Len(s)))
        n1 == int(Sub(s, 1, a))
        n2 == int(Sub(s, a + 2, a + b + 1))
    IN  [y |-> IF yd = 2 THEN 2000 + yv ELSE yv,
         m |-> IF dayfirst THEN n2 ELSE n1,
         d |-> IF dayfirst THEN n1 ELSE n2]

\* a date string is of the format: its separator, the length of its year,
\* and a month and a day of the calendar in the format's order
Fits(s, fmt) ==
    LET dayfirst == fmt \in {"%d.%m.%Y", "%d/%m/%Y", "%d/%m/%y"}
        r == Reading(s, dayfirst)
    IN  /\ At(s, DigitRun(s, 1) + 1) = (IF fmt = "%d.%m.%Y" THEN "." ELSE "/")
        /\ TrailingDigits(s) = (IF fmt \in {"%d/%m/%y", "%m/%d/%y"} THEN 2 ELSE 4)
        /\ r.m \in 1..12 /\ r.d \in 1..DaysInMonth(r.y, r.m)

C9_BadDateKeptAsMissing ==
    (/\ date_format \notin {"unset", "None", "ValueError"}
     /\ \E k \in 1..Len(dates) : to_datetime_format(dates[k], date_format) = NaT)
        =>
        /\ pc # "raised"
        /\ Len(date_col) = Len(dates)
        /\ \A k \in 1..Len(dates) :
            date_col[k] = to_datetime_format(dates[k], date_format)
        /\ pc = "done" => Len(derived) = Len(dates)

\* C10: preprocess never raises on a non-empty table: a record whose date
\* or time cannot be parsed ends with a missing datetime, and every record
\* is retained.  (Violated: pd.to_datetime on line 169 has no
\* errors='coerce' and raises on '2023-01-02 25:00' and on 'NaT 00:05'.)
C10_NeverRaises ==
    /\ pc # "raised"
    /\ pc = "done" => Len(datetime) = Len(df) /\ Len(derived) = Len(df)

(***************************************************************************)
(* Properties of the derived fields                                        *)
(***************************************************************************)
\* the table parse_chat returned
Parsed == Frame(dates, times, users, messages)

\* the records the header lines of the samples give
SampleRecords ==
    {[date |-> Groups(l).date, time |-> Groups(l).time,
      user |-> Groups(l).user, message |-> Groups(l).message] :
        l \in {h \in SampleLines : IsHeader(h)}}

\* C11: every derived field of a record depends only on that record's own
\* message, date and time: a parser output that agrees with this one on
\* record k, whatever its other records are, gives record k the same
\* datetime and the same derived fields.  (Violated: the date format is
\* inferred from the first records of the table, so the day and the month
\* of "3/4/23" depend on the record before it.)
C11_OwnRecordOnly ==
    pc = "done" =>
        \A k \in 1..Len(df) : \A r \in SampleRecords :
            LET other == [j \in 1..Len(df) |-> IF j = k THEN Parsed[k] ELSE r]
                e     == Enriched(other)
            IN  e.ok => e.datetime[k] = datetime[k] /\ e.rows[k] = derived[k]

\* the positions of the message of record k that hold an emoji of the table
EmojiAt(k) == {p \in 1..Len(messages[k]) : messages[k][p] \in EMOJI_DATA}

\* C12: for every record, emojis is the subsequence of the message's
\* characters that are in the emoji table, in message order with duplicates
\* kept, and emoji_count is the length of emojis.
C12_EmojiSubsequence ==
    pc = "done" =>
        \A k \in 1..Len(derived) :
            LET at == EmojiAt(k)
            IN  /\ Len(derived[k].emojis) = Cardinality(at)
                /\ \A p \in at :
                    derived[k].emojis[Cardinality({q \in at : q <= p})]
                        = messages[k][p]
                /\ derived[k].emoji_count = Len(derived[k].emojis)

\* grinning face, "a", grinning face, red heart, variation selector: three
\* emojis, the grinning face twice
C12_Witness ==
    /\ pc = "done"
    /\ lines = <<LineEmoji>>
    /\ df[1].message = <<"U+1F600", "a", "U+1F600", "U+2764", "U+FE0F">>
    /\ derived[1].emojis = <<"U+1F600", "U+1F600", "U+2764">>
    /\ derived[1].emoji_count = 3

\* C13: word_count is the number of maximal whitespace-delimited tokens of
\* the message, the newlines of merged continuation lines being whitespace:
\* the number of characters that are not whitespace and end the message or
\* stand before whitespace; it is 0 when the message is empty or whitespace.
C13_WordCount ==
    pc = "done" =>
        \A k \in 1..Len(derived) :
            LET msg  == messages[k]
                ends == {p \in 1..Len(msg) :
                            /\ msg[p] \notin {" ", "\t", "\n", "\r"}
                            /\ (p = Len(msg)
                                \/ msg[p + 1] \in {" ", "\t", "\n", "\r"})}
            IN  /\ derived[k].word_count = Cardinality(ends)
                /\ (\A p \in 1..Len(msg) : msg[p] \in {" ", "\t", "\n", "\r"})
                    => derived[k].word_count = 0

\* "Line one\nLine two" has four tokens
C13_Witness ==
    /\ pc = "done"
    /\ lines = <<Line24hr, LineText>>
    /\ df[1].message = <<"L", "i", "n", "e", " ", "o", "n", "e", "\n", "L", "i", "n", "e", " ", "t", "w", "o">>
    /\ derived[1].word_count = 4

\* the letter c, in either case, is the lower-case letter d
FoldsTo(c, d) ==
    c = d \/ \E k \in 1..26 : c = UpperLetters[k] /\ d = LowerLetters[k]

\* the marker occurs in the message, letters compared without their case
HasMarkerOf(msg, marker) ==
    \E p \in 0..(Len(msg) - Len(marker)) :
        \A q \in 1..Len(marker) : FoldsTo(msg[p + q], marker[q])

\* C14: has_media is 1 exactly when the lowercased message contains
\* 'omitted' or '<media omitted>' as a substring, and 0 otherwise; the
\* match ignores case ('check <Media Omitted>' gives 1).
C14_HasMedia ==
    pc = "done" =>
        \A k \in 1..Len(derived) :
            derived[k].has_media =
                (IF \/ HasMarkerOf(messages[k], <<"o", "m", "i", "t", "t", "e", "d">>)
                    \/ HasMarkerOf(messages[k], <<"<", "m", "e", "d", "i", "a", " ", "o", "m", "i", "t", "t", "e", "d", ">">>)
                 THEN 1 ELSE 0)

\* 'check <Media Omitted>' gives 1
C14_Witness ==
    /\ pc = "done"
    /\ lines = <<LineMedia>>
    /\ df[1].message = <<"c", "h", "e", "c", "k", " ", "<", "M", "e", "d", "i", "a", " ", "O", "m", "i", "t", "t", "e", "d", ">">>
    /\ derived[1].has_media = 1

\* C15: for every record has_url is true exactly when url_count >= 1, and
\* url_count is the number of URLs the extractor finds in the message.
C15_UrlCount ==
    pc = "done" =>
        \A k \in 1..Len(derived) :
            /\ derived[k].has_url \in BOOLEAN
            /\ derived[k].has_url <=> derived[k].url_count >= 1
            /\ derived[k].url_count = Len(find_urls(messages[k]))

\* 'see https://example.com now' has one URL
C15_Witness ==
    /\ pc = "done"
    /\ lines = <<LineUrl>>
    /\ df[1].message = <<"s", "e", "e", " ", "h", "t", "t", "p", "s", ":", "/", "/", "e", "x", "a", "m", "p", "l", "e", ".", "c", "o", "m", " ", "n", "o", "w">>
    /\ find_urls(df[1].message) = <<<<"h", "t", "t", "p", "s", ":", "/", "/", "e", "x", "a", "m", "p", "l", "e", ".", "c", "o", "m">>>>
    /\ derived[1].has_url = TRUE
    /\ derived[1].url_count = 1

Returned == pc = "done"

\* C17: preprocess returns the same records in the same order as its
\* input: the number of records is unchanged, user and message of every
\* record are unchanged, and the only changes are the normalization of
\* date and time and the addition of the derived fields.
C17_SameRecords ==
    Returned =>
        /\ Len(df) = Len(Parsed)
        /\ \A k \in 1..Len(df) :
            /\ df[k].user = Parsed[k].user
            /\ df[k].message = Parsed[k].message
            /\ df[k].time \in {Parsed[k].time, convert_time(Parsed[k].time)}
            /\ date_col[k] \in {to_datetime_format(Parsed[k].date, date_format),
                                to_datetime_dayfirst(Parsed[k].date)}
        /\ IF Len(df) = 0
           THEN /\ columns = {"date", "time", "user", "message"}
                /\ date_col = <<>> /\ datetime = <<>> /\ derived = <<>>
           ELSE /\ columns = {"date", "time", "user", "message"} \cup DerivedColumns
                /\ Len(date_col) = Len(df)
                /\ Len(datetime) = Len(df)
                /\ Len(derived) = Len(df)

\* two records, Bob's before Alice's, with the times normalized
C17_Witness ==
    /\ pc = "done"
    /\ lines = <<LineBracket, Line12hr>>
    /\ Len(df) = 2
    /\ df[1].user = <<"B", "o", "b">>
    /\ df[2].user = <<"A", "l", "i", "c", "e">>
    /\ df[1].message = <<"B", "o", "n", "j", "o", "u", "r">>
    /\ df[1].time = <<"1", "4", ":", "0", "5">>
    /\ df[2].time = <<"2", "3", ":", "5", "9">>

(***************************************************************************)
(* Empty lines                                                             *)
(***************************************************************************)
\* where, in the message of the k-th record, the text of line p ends: the
\* header's own message, then a newline and the line for every line after
\* the header up to p
RECURSIVE EndOf(_, _, _)
EndOf(hs, k, p) ==
    IF p <= hs[k] THEN Len(Groups(lines[hs[k]]).message)
    ELSE EndOf(hs, k, p - 1) + 1 + Len(lines[p])

\* the number of newlines of a string
Newlines(x) == Cardinality({p \in 1..Len(x) : x[p] = "\n"})

\* C20: empty lines are never dropped from a message body: each empty line
\* after a header, the empty last piece that a trailing newline of the
\* input gives included, is a continuation line and appends exactly one
\* newline to the current record's message.
C20_EmptyLinesKept ==
    LET hs == HeaderSeq
    IN  /\ Len(messages) = Len(hs)
        /\ \A k \in 1..Len(hs) :
            /\ Len(messages[k]) = EndOf(hs, k, RunEnd(hs, k))
            /\ Newlines(messages[k]) = RunEnd(hs, k) - hs[k]
            /\ \A p \in (hs[k] + 1)..RunEnd(hs, k) :
                lines[p] = <<>> =>
                    /\ EndOf(hs, k, p) = EndOf(hs, k, p - 1) + 1
                    /\ messages[k][EndOf(hs, k, p)] = "\n"

\* the export "1/1/23, 10:00 - Alice: Line one\n": the trailing newline
\* gives an empty last line, and the message ends with one newline
C20_Witness ==
    /\ pc = "preprocess"
    /\ data = Line24hr \o <<"\n">>
    /\ lines = <<Line24hr, <<>>>>
    /\ Len(df) = 1
    /\ df[1].message = <<"L", "i", "n", "e", " ", "o", "n", "e", "\n">>

(***************************************************************************)
(* Properties of ChatAnalyzer                                              *)
(***************************************************************************)
\* C18: no operation of ChatAnalyzer changes an enriched field of a record:
\* the table passed to the constructor keeps its rows and its columns, the
\* analyzer's copy keeps the rows it was given, and the columns of the copy
\* differ from the caller's by the temporary year_month_str at most.
C18_EnrichedFieldsKept ==
    [][/\ given' = given
       /\ given_columns' = given_columns
       /\ self_df' = given
       /\ self_columns' \ {"year_month_str"} = given_columns]_vars

\* get_activity_by_time has added year_month_str to the copy of a table of
\* two records, and the caller's table is as it was
C18_Witness ==
    /\ pc = "analyzer"
    /\ result.op = "get_activity_by_time"
    /\ Len(given) = 2
    /\ self_df = given
    /\ given_columns = EnrichedColumns
    /\ self_columns = EnrichedColumns \cup {"year_month_str"}
    /\ Len(year_month_str) = 2

\* the rows of the analyzer's table that have a date
Dated == {k \in 1..Len(self_df) : self_df[k].date # NaT}

SameSample ==
    {x \in TablesUpTo(SampleRecords, MaxLines) :
        /\ x # <<>>
        /\ \A j \in 1..sample_limit :
              j <= Len(x) \/ j <= Len(Parsed) =>
                  j <= Len(x) /\ j <= Len(Parsed) /\ x[j] = Parsed[j]}

\* C21: the reading of the date column is decided by the records of the
\* sample alone: a table that agrees with this one on the sample reads
\* every date string the two share as this one does, whatever its records
\* after the sample are.  (Violated: a date after the sample that does not
\* parse under the inferred format sends the whole column to the day-first
\* reading of the except block.)
C21_SampleDecides ==
    pc \in {"times", "features", "done", "raised"} =>
        \A other \in SameSample :
            \A j \in 1..Len(Parsed), k \in 1..Len(other) :
                other[k].date = Parsed[j].date =>
                    DateColumn(other)[k] = date_col[j]

\* C22: the time loop, whose label slices take the row at each chunk
\* boundary twice, gives every record the time that one convert_time of
\* its parsed time gives: after a pass the rows up to the slice's end are
\* converted and the rows after it are as parsed, after the loop every row
\* is converted, and convert_time of a converted time is that time.
C22_ChunkedTimes ==
    /\ pc = "times" =>
        \A k \in 1..Len(df) :
            df[k].time = (IF i_time > 0 /\ k - 1 <= i_time
                          THEN convert_time(Parsed[k].time)
                          ELSE Parsed[k].time)
    /\ pc \in {"features", "done", "raised"} =>
        \A k \in 1..Len(df) : df[k].time = convert_time(Parsed[k].time)
    /\ \A k \in 1..Len(times) :
        convert_time(convert_time(times[k])) = convert_time(times[k])

\* the loop is through a table of two rows, whose second row the passes at
\* i = 0 and at i = chunk_size both took: "14:05:30" has become "14:05"
C22_Witness ==
    /\ pc = "times"
    /\ i_time >= Len(df)
    /\ chunk_size < Len(df)
    /\ Len(df) = 2
    /\ times[2] = <<"1", "4", ":", "0", "5", ":", "3", "0">>
    /\ df[2].time = <<"1", "4", ":", "0", "5">>

\* no record
NoRecords == [dates |-> <<>>, times |-> <<>>, users |-> <<>>, messages |-> <<>>]

\* one line of a single pass: a header line adds a record of its groups,
\* another line goes to the last record's message, or nowhere
OneLine(acc, line) ==
    LET g == Groups(line)
    IN  IF g.ok
        THEN [dates |-> Append(acc.dates, g.date),
              times |-> Append(acc.times, g.time),
              users |-> Append(acc.users, g.user),
              messages |-> Append(acc.messages, g.message)]
        ELSE IF acc.messages = <<>> THEN acc
        ELSE [acc EXCEPT !.messages[Len(acc.messages)] = @ \o <<"\n">> \o line]

\* a single pass over the lines ls, first to last, with no chunks
RECURSIVE OnePass(_)
OnePass(ls) ==
    IF ls = <<>> THEN NoRecords
    ELSE CHOOSE r \in {OneLine(acc, ls[Len(ls)]) :
                          acc \in {OnePass(SubSeq(ls, 1, Len(ls) - 1))}} : TRUE

\* C23: the chunked loops of parse_chat give the records of one pass over
\* all the lines: at every point the four lists are those of a single pass
\* over the lines seen so far, so a continuation line that opens a chunk
\* goes to the last record of the chunks before it, and the table returned
\* is that of a single pass over the whole export.
C23_ChunksAsOnePass ==
    /\ pc # "split" =>
        [dates |-> dates, times |-> times, users |-> users,
         messages |-> messages] = OnePass(SubSeq(lines, 1, Seen))
    /\ pc = "preprocess" =>
        LET one == OnePass(lines)
        IN  df = Frame(one.dates, one.times, one.users, one.messages)

\* "Line two" opens the second chunk and has gone to the record that
\* "1/1/23, 10:00 - Alice: Line one" made in the first
C23_Witness ==
    /\ pc = "line"
    /\ lines = <<Line24hr, LineText>>
    /\ i >= chunk_size
    /\ pos = 1
    /\ chunk_lines[1] = LineText
    /\ messages = <<<<"L", "i", "n", "e", " ", "o", "n", "e", "\n",
                      "L", "i", "n", "e", " ", "t", "w", "o">>>>

(***************************************************************************)
(* Properties of the header patterns                                       *)
(***************************************************************************)
\* where the sender would start in a line that begins with a slash date, a
\* time with or without am/pm and the separator " - ": the position after
\* the separator, or 0 where the line does not begin so
SenderStart(line) ==
    LET e  == SlashDateEnd(line, 1)
        h  == DigitRun(line, e + 3)
        c  == e + 3 + h
        separator(p) == /\ IsSpace(At(line, p)) /\ At(line, p + 1) = "-"
                        /\ IsSpace(At(line, p + 2))
    IN  IF ~(/\ e > 0 /\ At(line, e + 1) = "," /\ IsSpace(At(line, e + 2))
             /\ h \in 1..2 /\ At(line, c) = ":"
             /\ IsDigit(At(line, c + 1)) /\ IsDigit(At(line, c + 2)))
        THEN 0
        ELSE IF separator(c + 3) THEN c + 6
        ELSE IF /\ IsSpace(At(line, c + 3))
                /\ At(line, c + 4) \in {"A", "P", "a", "p"}
                /\ At(line, c + 5) \in {"M", "m"}
                /\ separator(c + 6)
        THEN c + 9
        ELSE 0

\* a line with a date, a time and the separator, and no colon followed by
\* whitespace after them: a system notice
IsNotice(line) ==
    /\ SenderStart(line) > 0
    /\ \A p \in SenderStart(line)..(Len(line) - 1) :
          ~(line[p] = ":" /\ IsSpace(line[p + 1]))

\* C24: a line that begins with a date and a time and lacks the sender,
\* colon and whitespace after " - " makes no record: no pattern matches it,
\* the lists have one entry a header line seen, and the line is in the
\* message of the last record before it, whole, after a newline; with no
\* record before it, it is in no message.
C24_NoticeIsContinuation ==
    LET hs == HeaderSeq
    IN  \A p \in 1..Seen :
            IsNotice(lines[p]) =>
                /\ ~IsHeader(lines[p])
                /\ Len(messages) = Len(hs) /\ Len(users) = Len(hs)
                /\ \A k \in 1..Len(hs) :
                     hs[k] < p /\ p <= RunEnd(hs, k) =>
                        Sub(messages[k], EndOf(hs, k, p - 1) + 1,
                            EndOf(hs, k, p)) = <<"\n">> \o lines[p]
                /\ (\A q \in 1..p : ~IsHeader(lines[q])) =>
                     /\ \A k \in 1..Len(hs) : Len(messages[k]) =
                            EndOf(hs, k, RunEnd(hs, k))
                     /\ Len(hs) = 0 => messages = <<>>

\* "1/1/23, 10:00 - Alice added Bob" after a header line has made no record
\* and is the end of the message "Line one"
C24_Witness ==
    /\ pc = "preprocess"
    /\ lines = <<Line24hr, LineNotice>>
    /\ IsNotice(LineNotice)
    /\ Len(df) = 1
    /\ df[1].message = Groups(Line24hr).message \o <<"\n">> \o LineNotice

\* where the rest of a header line starts, after the timestamp and its
\* separator: after "] " in the bracketed format, after " - " otherwise
RestStart(line) ==
    IF At(line, 1) = "["
    THEN Min({p \in 1..Len(line) : line[p] = "]"}) + 2
    ELSE SenderStart(line)

\* of the k-th header line seen, at position n of the lines: the user is
\* the text from the start of the rest up to the first colon that a
\* whitespace character follows, and the message starts after that
\* character and runs to the end of the line
UserShortest(k, n) ==
    LET l     == lines[n]
        a     == RestStart(l)
        colon == a + Len(users[k])
    IN  /\ a > 0
        /\ Sub(l, a, colon - 1) = users[k]
        /\ At(l, colon) = ":" /\ IsSpace(At(l, colon + 1))
        /\ \A p \in a..(colon - 1) : ~(l[p] = ":" /\ IsSpace(l[p + 1]))
        /\ \A p \in 1..(Len(users[k]) - 1) :
              ~(users[k][p] = ":" /\ IsSpace(users[k][p + 1]))
        /\ Sub(messages[k], 1, Len(l) - colon - 1)
              = Sub(l, colon + 2, Len(l))

\* C25, as stated: the user is the shortest text followed by a colon and a
\* whitespace character, and user, ": " and the header's message give the
\* rest of the header line.  (Violated: the whitespace character after the
\* colon need not be a space.)
C25_ColonSpaceRebuilds ==
    LET hs == HeaderSeq
    IN  \A k \in 1..Len(hs) :
            LET l == lines[hs[k]]
                a == RestStart(l)
            IN  /\ UserShortest(k, hs[k])
                /\ users[k] \o <<":", " ">>
                     \o Sub(l, a + Len(users[k]) + 2, Len(l))
                   = Sub(l, a, Len(l))

\* C25, amended: the user is the shortest text followed by a colon and a
\* whitespace character, so it holds no colon-whitespace pair and any later
\* one is in the message; user, the colon, the whitespace character that
\* follows it in the line, and the header's message give the rest of the
\* header line.
C25_UserIsShortest ==
    LET hs == HeaderSeq
    IN  \A k \in 1..Len(hs) :
            LET l == lines[hs[k]]
                a == RestStart(l)
            IN  /\ UserShortest(k, hs[k])
                /\ users[k] \o <<":", At(l, a + Len(users[k]) + 1)>>
                     \o Sub(l, a + Len(users[k]) + 2, Len(l))
                   = Sub(l, a, Len(l))

\* "1/3/23, 8:04 - Al:<tab>x: y" gives the user "Al" and the message "x: y"
C25_Witness ==
    /\ pc = "preprocess"
    /\ lines = <<LineTab>>
    /\ df[1].user = <<"A", "l">>
    /\ df[1].message = <<"x", ":", " ", "y">>

(***************************************************************************)
(* Properties of the features of merged messages                           *)
(***************************************************************************)
\* the tokens of the header's message and of the lines after it up to line
\* p, each piece counted alone
RECURSIVE PieceWords(_, _, _)
PieceWords(hs, k, p) ==
    IF p <= hs[k] THEN word_count(Groups(lines[hs[k]]).message)
    ELSE PieceWords(hs, k, p - 1) + word_count(lines[p])

\* C26: the word_count of a record is the sum of the token counts of its
\* header's message and of each of its continuation lines: the newline that
\* joins them is whitespace, and joins no two tokens and splits none.
C26_WordCountAdditive ==
    pc = "done" /\ Len(df) > 0 =>
        LET hs == HeaderSeq
        IN  /\ Len(derived) = Len(hs)
            /\ \A k \in 1..Len(hs) :
                derived[k].word_count = PieceWords(hs, k, RunEnd(hs, k))

\* "Line one" and the notice line "1/1/23, 10:00 - Alice added Bob" after
\* it have 2 and 6 tokens, and the record has 8
C26_Witness ==
    /\ pc = "done"
    /\ lines = <<Line24hr, LineNotice>>
    /\ word_count(Groups(Line24hr).message) = 2
    /\ word_count(LineNotice) = 6
    /\ derived[1].word_count = 8

\* 'omitted'
Omitted == <<"o", "m", "i", "t", "t", "e", "d">>

\* C27: has_media is 1 exactly for the messages whose lowercased text holds
\* 'omitted' somewhere, ordinary text included, and 0 for the others; a
\* message with the marker '<media omitted>' holds 'omitted', so the marker
\* adds no case.
C27_OmittedAnywhere ==
    pc = "done" =>
        \A k \in 1..Len(derived) :
            /\ derived[k].has_media \in {0, 1}
            /\ derived[k].has_media = 1 <=>
                  Contains(lower(df[k].message), Omitted)
            /\ \A term \in media_terms :
                  Contains(lower(df[k].message), term) =>
                      Contains(lower(df[k].message), Omitted)

\* "2/1/2023, 12:30 AM - Al: I omitted that" has no media marker and
\* has_media 1
C27_Witness ==
    /\ pc = "done"
    /\ lines = <<LineYear4>>
    /\ df[1].message = <<"I", " ", "o", "m", "i", "t", "t", "e", "d", " ",
                         "t", "h", "a", "t">>
    /\ ~Contains(lower(df[1].message), <<"<", "m", "e", "d", "i", "a">>)
    /\ derived[1].has_media = 1

RECURSIVE Total(_, _)
Total(name, n) == IF n = 0 THEN 0 ELSE Total(name, n - 1) + self_df[n][name]

\* C29: where get_basic_stats returns for a non-empty table, total_messages
\* is the number of records, the four other counters are the totals of
\* word_count, has_media, url_count and emoji_count over all records,
\* chat_duration_days is the days from the earliest to the latest date
\* plus one, at least 1, and avg_messages_per_day is total_messages over
\* chat_duration_days; for the empty table the result is the five counters,
\* all 0.
C29_BasicStats ==
    pc = "analyzer" /\ result.op = "get_basic_stats" /\ ~result.raised =>
        LET v == result.value
            n == Len(self_df)
        IN  IF n = 0
            THEN v = [total_messages |-> 0, total_words |-> 0,
                      media_shared |-> 0, links_shared |-> 0,
                      total_emojis |-> 0]
            ELSE /\ v.total_messages = n
                 /\ v.total_words = Total("word_count", n)
                 /\ v.media_shared = Total("has_media", n)
                 /\ v.links_shared = Total("url_count", n)
                 /\ v.total_emojis = Total("emoji_count", n)
                 /\ v.chat_duration_days >= 1
                 /\ \E a \in Dated, b \in Dated :
                       /\ \A z \in Dated :
                             /\ toordinal(self_df[b].date)
                                   <= toordinal(self_df[z].date)
                             /\ toordinal(self_df[z].date)
                                   <= toordinal(self_df[a].date)
                       /\ v.chat_duration_days =
                             toordinal(self_df[a].date)
                                - toordinal(self_df[b].date) + 1
                 /\ v.avg_messages_per_day =
                       [num |-> v.total_messages,
                        den |-> v.chat_duration_days]

\* the statistics of the table of "1/3/23, 8:01 - Al: see
\* https://example.com now" and "12/31/23, 11:59 PM - Alice: Hello": two
\* messages, four words, one link, 363 days from 3 January to 31 December
C29_Witness ==
    /\ pc = "analyzer"
    /\ result.op = "get_basic_stats"
    /\ ~result.raised
    /\ Len(self_df) = 2
    /\ self_df[1].date = [y |-> 2023, m |-> 1, d |-> 3]
    /\ self_df[2].date = [y |-> 2023, m |-> 12, d |-> 31]
    /\ result.value.total_messages = 2
    /\ result.value.total_words = 4
    /\ result.value.links_shared = 1
    /\ result.value.chat_duration_days = 363
    /\ result.value.avg_messages_per_day = [num |-> 2, den |-> 363]

\* the calls that add the temporary column
AddingCalls == {"get_activity_by_time", "get_media_analysis"}

\* the column after a step is every record's datetime as year-month, and
\* a get_media_analysis of the step returned what it returns with the
\* months taken from such a column
TemporaryColumnRight ==
    /\ "year_month_str" \in self_columns' =>
          /\ Len(year_month_str') = Len(self_df')
          /\ \A k \in 1..Len(self_df') :
                year_month_str'[k] =
                    IF self_df'[k].datetime.ok
                    THEN Pad4(self_df'[k].datetime.y) \o <<"-">>
                            \o Pad2(self_df'[k].datetime.m)
                    ELSE NoString
    /\ result'.op = "get_media_analysis" /\ Len(self_df') > 0 =>
          result' = media_analysis(self_df',
                                   [k \in 1..Len(self_df') |->
                                       year_month(self_df'[k].datetime)])

\* construction and cleanup_temp_data leave the table without the column,
\* and the calls that neither add nor remove it leave it as it was
TemporaryColumnGone ==
    /\ pc = "new" => "year_month_str" \notin self_columns'
    /\ pc = "analyzer" /\ result'.op = "cleanup_temp_data" =>
          "year_month_str" \notin self_columns'
    /\ pc = "analyzer" /\ result'.op \notin AddingCalls \cup {"cleanup_temp_data"} =>
          ("year_month_str" \in self_columns'
              <=> "year_month_str" \in self_columns)

\* C30 as stated: year_month_str is in the analyzer's table exactly if
\* get_activity_by_time or get_media_analysis has been called since
\* construction or the last cleanup_temp_data: every such call leaves the
\* column in the table, whatever the table.
C30_PresentAfterEveryCall ==
    [][/\ TemporaryColumnGone
       /\ pc = "analyzer" /\ result'.op \in AddingCalls =>
             "year_month_str" \in self_columns'
       /\ TemporaryColumnRight]_vars

\* C30: year_month_str is in the analyzer's table exactly if
\* get_activity_by_time or get_media_analysis has been called on a table
\* with records since construction or the last cleanup_temp_data, and the
\* empty table never has it; where present it is every record's datetime as
\* year-month, and get_media_analysis returns the same whether it reuses
\* the column or computes it.
C30_PresentAfterCallWithRecords ==
    [][/\ TemporaryColumnGone
       /\ pc = "analyzer" /\ result'.op \in AddingCalls =>
             ("year_month_str" \in self_columns' <=> Len(self_df) > 0)
       /\ TemporaryColumnRight]_vars

\* get_media_analysis has returned for the table of the messages of
\* 3 January and 31 December 2023, whose column holds '2023-01' and
\* '2023-12'
C30_Witness ==
    /\ pc = "analyzer"
    /\ result.op = "get_media_analysis"
    /\ Len(self_df) = 2
    /\ "year_month_str" \in self_columns
    /\ year_month_str = << <<"2", "0", "2", "3", "-", "0", "1">>,
                           <<"2", "0", "2", "3", "-", "1", "2">> >>
    /\ DOMAIN result.value.media_over_time =
          {<<"2", "0", "2", "3", "-", "0", "1">>,
           <<"2", "0", "2", "3", "-", "1", "2">>}

=============================================================================
